---- MODULE Spec2Model ----
(***************************************************************************)
(* A model of action-promote: src/src/promote.py (the promotion script),   *)
(* and src/src/validate.py (the collecting validator).                     *)
(*                                                                         *)
(* JSON objects are functions whose DOMAIN is the set of keys present, so  *)
(* Python's `"k" in d` is `"k" \in DOMAIN d`.  Lists are sequences.  A     *)
(* Python dict that is iterated (overlays_to_images, overlays_to_charts)   *)
(* is a sequence of [key, val] items in insertion order.                   *)
(***************************************************************************)
EXTENDS Integers, Sequences, FiniteSets, TLC

VARIABLES
    images_to_update,    \* main: parsed IMAGES_TO_UPDATE
    charts_to_update,    \* main: parsed CHARTS_TO_UPDATE
    fs,                  \* the deployment directory: overlay -> [isdir, file, kust]
    fs0,                 \* the deployment directory as it was when the process started
    pc,                  \* position in main()
    overlays_to_images,  \* main: result of get_images_from_overlays
    overlays_to_charts,  \* main: result of get_charts_from_overlays
    promotion_manifest,  \* main: the manifest being accumulated
    idx,                 \* main: number of items of the current loop already processed
    exit_code,           \* process exit status "0" or "1", "running" while main runs
    error,               \* what ended the run: "" or the exception's name
    stdout,              \* the documents main printed on standard output, in order
    commands,            \* external mutation commands invoked so far, in order
    writes,              \* overlays whose kustomization.yaml was opened for writing, in order
    cwd,                 \* process working directory
    deployment_dir,      \* main: the absolute deployment directory
    fn_in,               \* function-level specifications: the arguments
    fn_out               \* function-level specifications: what the calls returned

vars == <<images_to_update, charts_to_update, fs, fs0, pc, overlays_to_images,
          overlays_to_charts, promotion_manifest, idx, exit_code, error, stdout,
          commands, writes, cwd, deployment_dir, fn_in, fn_out>>

(***************************************************************************)
(* Values                                                                  *)
(***************************************************************************)
\* Python's None (dict.get of a missing key, a file that does not exist).
None == "<None>"

\* The empty JSON object / empty dict.
EmptyDict == [k \in {} |-> None]

\* Python truthiness of a string-or-None value: `if new_name and new_tag`.
Truthy(v) == v # None /\ v # ""

\* dict.get(key, default)
Get(d, key, default) == IF key \in DOMAIN d THEN d[key] ELSE default

\* d with d[key] = val
Put(d, key, val) == [k \in DOMAIN d \cup {key} |-> IF k = key THEN val ELSE d[k]]

\* All sequences over S of length at most n.
SeqsUpTo(S, n) == UNION {[1..k -> S] : k \in 0..n}

\* An optional field: absent, or present with one of vals.
Opt(key, vals) == {EmptyDict} \cup {key :> v : v \in vals}

\* A required field with one of vals.
Req(key, vals) == {key :> v : v \in vals}

Range(s) == {s[i] : i \in DOMAIN s}

(***************************************************************************)
(* promote.py: find_duplicates, validate_images, validate_charts           *)
(***************************************************************************)
\* The loop of find_duplicates over image_names, from position i, with the
\* sets seen and duplicates built so far.
RECURSIVE find_duplicates_loop(_, _, _, _)
find_duplicates_loop(image_names, i, seen, duplicates) ==
    IF i > Len(image_names) THEN duplicates
    ELSE IF image_names[i] \in seen
         THEN find_duplicates_loop(image_names, i + 1, seen,
                                   duplicates \cup {image_names[i]})
         ELSE find_duplicates_loop(image_names, i + 1,
                                   seen \cup {image_names[i]}, duplicates)

\* [image[field] for image in images if field in image]
FieldValues(images, field) ==
    LET F[i \in 0..Len(images)] ==
            IF i = 0 THEN <<>>
            ELSE IF field \in DOMAIN images[i]
                 THEN Append(F[i - 1], images[i][field])
                 ELSE F[i - 1]
    IN F[Len(images)]

\* A plausible slip: stops at the first duplicate found.
find_duplicates_first_only(images, field) ==
    LET names == FieldValues(images, field)
        dups  == {i \in DOMAIN names : \E j \in 1..(i - 1) : names[j] = names[i]}
    IN IF dups = {} THEN {}
       ELSE {names[CHOOSE i \in dups : \A j \in dups : i <= j]}

find_duplicates(images, field) ==
    find_duplicates_loop(FieldValues(images, field), 1, {}, {})

\* The per-image checks of promote.validate_images, from image i on:
\* TRUE when the loop runs to the end, FALSE at the first `return False`.
RECURSIVE validate_images_loop(_, _, _)
validate_images_loop(images, i, originally_dict) ==
    IF i > Len(images) THEN TRUE
    ELSE LET image == images[i] IN
         IF "name" \notin DOMAIN image THEN FALSE
         ELSE IF "fromOverlay" \in DOMAIN image /\ "newName" \in DOMAIN image THEN FALSE
         ELSE IF "fromOverlay" \in DOMAIN image /\ "newTag" \in DOMAIN image THEN FALSE
         ELSE IF "fromOverlay" \notin DOMAIN image
                 /\ "newTag" \notin DOMAIN image /\ "newName" \notin DOMAIN image THEN FALSE
         ELSE IF ~originally_dict /\ "overlays" \notin DOMAIN image THEN FALSE
         ELSE validate_images_loop(images, i + 1, originally_dict)

\* A plausible slip: only the names are searched for duplicates.
validate_images_names_only(images, originally_dict) ==
    IF find_duplicates(images, "name") # {} THEN "SystemExit"
    ELSE IF validate_images_loop(images, 1, originally_dict) THEN "True" ELSE "False"

\* promote.validate_images on the list of images (for a dict argument: the
\* list of its values, originally_dict = TRUE).  "SystemExit" is sys.exit(1).
validate_images(images, originally_dict) ==
    IF find_duplicates(images, "name") # {} THEN "SystemExit"
    ELSE IF find_duplicates(images, "newName") # {} THEN "SystemExit"
    ELSE IF validate_images_loop(images, 1, originally_dict) THEN "True" ELSE "False"

RECURSIVE validate_charts_loop(_, _, _)
validate_charts_loop(charts, i, originally_dict) ==
    IF i > Len(charts) THEN TRUE
    ELSE LET chart == charts[i] IN
         IF "name" \notin DOMAIN chart THEN FALSE
         ELSE IF "fromOverlay" \in DOMAIN chart /\ "version" \in DOMAIN chart THEN FALSE
         ELSE IF "fromOverlay" \notin DOMAIN chart /\ "version" \notin DOMAIN chart THEN FALSE
         ELSE IF ~originally_dict /\ "overlays" \notin DOMAIN chart THEN FALSE
         ELSE validate_charts_loop(charts, i + 1, originally_dict)

validate_charts(charts, originally_dict) ==
    IF find_duplicates(charts, "name") # {} THEN "SystemExit"
    ELSE IF validate_charts_loop(charts, 1, originally_dict) THEN "True" ELSE "False"

\* What promote.validate_images logs with logger.fatal before it exits or
\* returns: the sequence of messages, as records [kind, ...].
RECURSIVE validate_images_fatal_loop(_, _, _)
validate_images_fatal_loop(images, i, originally_dict) ==
    IF i > Len(images) THEN <<>>
    ELSE LET image == images[i] IN
         IF "name" \notin DOMAIN image THEN <<[kind |-> "missing name", entry |-> i]>>
         ELSE IF "fromOverlay" \in DOMAIN image /\ "newName" \in DOMAIN image
         THEN <<[kind |-> "newName with fromOverlay", entry |-> i]>>
         ELSE IF "fromOverlay" \in DOMAIN image /\ "newTag" \in DOMAIN image
         THEN <<[kind |-> "newTag with fromOverlay", entry |-> i]>>
         ELSE IF "fromOverlay" \notin DOMAIN image
                 /\ "newTag" \notin DOMAIN image /\ "newName" \notin DOMAIN image
         THEN <<[kind |-> "must set newName, newTag or both", entry |-> i]>>
         ELSE IF ~originally_dict /\ "overlays" \notin DOMAIN image
         THEN <<[kind |-> "missing overlays", entry |-> i]>>
         ELSE validate_images_fatal_loop(images, i + 1, originally_dict)

validate_images_fatal(images, originally_dict) ==
    IF find_duplicates(images, "name") # {}
    THEN <<[kind |-> "duplicate names", names |-> find_duplicates(images, "name")]>>
    ELSE IF find_duplicates(images, "newName") # {}
    THEN <<[kind |-> "duplicate newNames", names |-> find_duplicates(images, "newName")]>>
    ELSE validate_images_fatal_loop(images, 1, originally_dict)

\* What promote.validate_charts logs with logger.fatal.
RECURSIVE validate_charts_fatal_loop(_, _, _)
validate_charts_fatal_loop(charts, i, originally_dict) ==
    IF i > Len(charts) THEN <<>>
    ELSE LET chart == charts[i] IN
         IF "name" \notin DOMAIN chart THEN <<[kind |-> "missing name", entry |-> i]>>
         ELSE IF "fromOverlay" \in DOMAIN chart /\ "version" \in DOMAIN chart
         THEN <<[kind |-> "version with fromOverlay", entry |-> i]>>
         ELSE IF "fromOverlay" \notin DOMAIN chart /\ "version" \notin DOMAIN chart
         THEN <<[kind |-> "must set version", entry |-> i]>>
         ELSE IF ~originally_dict /\ "overlays" \notin DOMAIN chart
         THEN <<[kind |-> "missing overlays", entry |-> i]>>
         ELSE validate_charts_fatal_loop(charts, i + 1, originally_dict)

validate_charts_fatal(charts, originally_dict) ==
    IF find_duplicates(charts, "name") # {}
    THEN <<[kind |-> "duplicate names", names |-> find_duplicates(charts, "name")]>>
    ELSE validate_charts_fatal_loop(charts, 1, originally_dict)

(***************************************************************************)
(* validate.py: validate_images, validate_image_fields, validate_charts,   *)
(* validate_chart_fields.  The errors list is a sequence of records        *)
(* [kind, ...] in the order the errors are appended.                       *)
(***************************************************************************)
\* The errors validate_image_fields appends for one image.
ImageFieldErrors(image, i, originally_dict) ==
    (IF "name" \notin DOMAIN image
     THEN <<[kind |-> "missing name", entry |-> i]>> ELSE <<>>)
    \o (IF "fromOverlay" \in DOMAIN image /\ "newName" \in DOMAIN image
        THEN <<[kind |-> "newName with fromOverlay", entry |-> i]>>
        ELSE IF "fromOverlay" \in DOMAIN image /\ "newTag" \in DOMAIN image
        THEN <<[kind |-> "newTag with fromOverlay", entry |-> i]>>
        ELSE IF "newTag" \notin DOMAIN image /\ "newName" \notin DOMAIN image
        THEN <<[kind |-> "must set newName, newTag or both", entry |-> i]>>
        ELSE <<>>)
    \o (IF ~originally_dict /\ "overlays" \notin DOMAIN image
        THEN <<[kind |-> "missing overlays", entry |-> i]>> ELSE <<>>)

\* A plausible slip: only the first entry with errors is reported.
validate_image_fields_first(images, originally_dict) ==
    LET bad == {i \in DOMAIN images : ImageFieldErrors(images[i], i, originally_dict) # <<>>}
    IN IF bad = {} THEN <<>>
       ELSE LET i == CHOOSE i \in bad : \A j \in bad : i <= j
            IN ImageFieldErrors(images[i], i, originally_dict)

validate_image_fields(images, originally_dict) ==
    LET F[i \in 0..Len(images)] ==
            IF i = 0 THEN <<>>
            ELSE F[i - 1] \o ImageFieldErrors(images[i], i, originally_dict)
    IN F[Len(images)]

\* validate.validate_images: [ret, errors], ret = (len(errors) == 0).
validate_py_validate_images(images, originally_dict) ==
    LET names    == find_duplicates(images, "name")
        newNames == find_duplicates(images, "newName")
        errors ==
            (IF names # {} THEN <<[kind |-> "duplicate names", names |-> names]>>
             ELSE <<>>)
            \o (IF newNames # {}
                THEN <<[kind |-> "duplicate newNames", names |-> newNames]>>
                ELSE <<>>)
            \o (IF Len(images) > 0 THEN validate_image_fields(images, originally_dict)
                ELSE <<>>)
    IN [ret |-> errors = <<>>, errors |-> errors]

\* The errors validate_chart_fields appends for one chart.
ChartFieldErrors(chart, i, originally_dict) ==
    (IF "name" \notin DOMAIN chart
     THEN <<[kind |-> "missing name", entry |-> i]>> ELSE <<>>)
    \o (IF "fromOverlay" \in DOMAIN chart /\ "version" \in DOMAIN chart
        THEN <<[kind |-> "version with fromOverlay", entry |-> i]>>
        ELSE IF "version" \notin DOMAIN chart
        THEN <<[kind |-> "must set version", entry |-> i]>>
        ELSE <<>>)
    \o (IF ~originally_dict /\ "overlays" \notin DOMAIN chart
        THEN <<[kind |-> "missing overlays", entry |-> i]>> ELSE <<>>)

validate_chart_fields(charts, originally_dict) ==
    LET F[i \in 0..Len(charts)] ==
            IF i = 0 THEN <<>>
            ELSE F[i - 1] \o ChartFieldErrors(charts[i], i, originally_dict)
    IN F[Len(charts)]

\* validate.validate_charts: [ret, errors].
validate_py_validate_charts(charts, originally_dict) ==
    LET names == find_duplicates(charts, "name")
        errors ==
            (IF names # {} THEN <<[kind |-> "duplicate names", names |-> names]>>
             ELSE <<>>)
            \o (IF Len(charts) > 0 THEN validate_chart_fields(charts, originally_dict)
                ELSE <<>>)
    IN [ret |-> errors = <<>>, errors |-> errors]


(***************************************************************************)
(* Python dicts that are iterated: sequences of [key, val] in insertion    *)
(* order, keys unique.                                                     *)
(***************************************************************************)
DictKeys(d) == {d[i].key : i \in DOMAIN d}

DictGet(d, k) == d[CHOOSE i \in DOMAIN d : d[i].key = k].val

\* d[k] = v: overwrites in place, or appends a new key.
DictSet(d, k, v) ==
    IF k \in DictKeys(d)
    THEN [i \in DOMAIN d |-> IF d[i].key = k THEN [key |-> k, val |-> v] ELSE d[i]]
    ELSE Append(d, [key |-> k, val |-> v])

\* list(d.values())
DictValues(d) == [i \in DOMAIN d |-> d[i].val]

(***************************************************************************)
(* The deployment directory, fs[o] for each overlay name o:                *)
(*   isdir  os.path.isdir(deployment_dir/o)                                *)
(*   file   the state of deployment_dir/o/kustomization.yaml: "missing"    *)
(*          (open raises FileNotFoundError), "invalid" (yaml.safe_load     *)
(*          raises YAMLError) or "yaml"                                    *)
(*   kust   the parsed document when file = "yaml"                         *)
(***************************************************************************)
NoDir == [isdir |-> FALSE, file |-> "missing", kust |-> EmptyDict]

Dir(file, kust) == [isdir |-> TRUE, file |-> file, kust |-> kust]

(***************************************************************************)
(* promote.py: read_images_from_overlay, read_charts_from_overlay          *)
(***************************************************************************)
\* The dict built by `images[image["name"]] = image` over entries; every
\* entry has a name.
RECURSIVE ByName(_, _, _)
ByName(entries, i, acc) ==
    IF i > Len(entries) THEN acc
    ELSE ByName(entries, i + 1, DictSet(acc, entries[i]["name"], entries[i]))

\* A plausible slip: the images read are returned without being validated.
read_images_unvalidated(overlay, files) ==
    LET kustomize == files[overlay].kust
        Exit == [status |-> "SystemExit", val |-> <<>>]
    IN  IF files[overlay].file # "yaml" THEN Exit
        ELSE IF "images" \notin DOMAIN kustomize THEN Exit
        ELSE IF \E i \in DOMAIN kustomize["images"] :
                    "name" \notin DOMAIN kustomize["images"][i] THEN Exit
        ELSE [status |-> "ok", val |-> ByName(kustomize["images"], 1, <<>>)]

\* Returns [status, val]: status "ok" with the dict, or "SystemExit".
read_images_from_overlay(overlay, files) ==
    LET kustomize == files[overlay].kust
        Exit == [status |-> "SystemExit", val |-> <<>>]
    IN  IF files[overlay].file = "missing" THEN Exit        \* FileNotFoundError
        ELSE IF files[overlay].file = "invalid" THEN Exit   \* yaml.YAMLError
        ELSE IF "images" \notin DOMAIN kustomize THEN Exit
        ELSE IF \E i \in DOMAIN kustomize["images"] :
                    "name" \notin DOMAIN kustomize["images"][i] THEN Exit
        ELSE LET images == ByName(kustomize["images"], 1, <<>>) IN
             IF validate_images(DictValues(images), TRUE) # "True" THEN Exit
             ELSE [status |-> "ok", val |-> images]

read_charts_from_overlay(overlay, files) ==
    LET kustomize == files[overlay].kust
        Exit == [status |-> "SystemExit", val |-> <<>>]
    IN  IF files[overlay].file = "missing" THEN Exit        \* FileNotFoundError
        ELSE IF files[overlay].file = "invalid" THEN Exit   \* yaml.YAMLError
        ELSE IF "helmCharts" \notin DOMAIN kustomize THEN Exit
        ELSE IF \E i \in DOMAIN kustomize["helmCharts"] :
                    "name" \notin DOMAIN kustomize["helmCharts"][i] THEN Exit
        ELSE LET charts == ByName(kustomize["helmCharts"], 1, <<>>) IN
             IF validate_charts(DictValues(charts), TRUE) # "True" THEN Exit
             ELSE [status |-> "ok", val |-> charts]

(***************************************************************************)
(* promote.py: get_images_from_overlays, get_charts_from_overlays          *)
(***************************************************************************)
\* A plausible slip: the bucket is assigned instead of appended to.
BucketAssign(d, overlay, entry) == DictSet(d, overlay, <<entry>>)

\* overlays_to_images[overlay].append(entry), creating the bucket first.
BucketAppend(d, overlay, entry) ==
    IF overlay \in DictKeys(d)
    THEN DictSet(d, overlay, Append(DictGet(d, overlay), entry))
    ELSE DictSet(d, overlay, <<entry>>)

\* `if overlay not in d: d[overlay] = []`
BucketCreate(d, overlay) ==
    IF overlay \in DictKeys(d) THEN d ELSE DictSet(d, overlay, <<>>)

\* The two nested loops, at image i and position j of its overlays list,
\* with the dict acc built so far.  Returns [status, val].
RECURSIVE get_images_loop(_, _, _, _, _)
get_images_loop(images, files, i, j, acc) ==
    IF i > Len(images) THEN [status |-> "ok", val |-> acc]
    ELSE LET image == images[i] IN
         IF "overlays" \notin DOMAIN image THEN [status |-> "KeyError", val |-> acc]
         ELSE IF j > Len(image["overlays"]) THEN get_images_loop(images, files, i + 1, 1, acc)
         ELSE LET overlay == image["overlays"][j] IN
              IF "fromOverlay" \in DOMAIN image
              THEN LET r == read_images_from_overlay(image["fromOverlay"], files) IN
                   IF r.status # "ok" THEN [status |-> r.status, val |-> acc]
                   ELSE IF "name" \notin DOMAIN image
                           \/ image["name"] \notin DictKeys(r.val)
                        THEN [status |-> "KeyError", val |-> acc]
                   ELSE get_images_loop(images, files, i, j + 1,
                            BucketAppend(acc, overlay, DictGet(r.val, image["name"])))
              ELSE get_images_loop(images, files, i, j + 1,
                                   BucketAppend(acc, overlay, image))

get_images_from_overlays(images, files) == get_images_loop(images, files, 1, 1, <<>>)

\* A plausible slip: the comparison of the names left out.
MatchingChartsAny(charts, name) == DictValues(charts)

\* The entries appended by `for overlayChart in charts.values(): if
\* overlayChart["name"] == chart["name"]: append(overlayChart)`.
MatchingCharts(charts, name) ==
    LET F[i \in 0..Len(charts)] ==
            IF i = 0 THEN <<>>
            ELSE IF charts[i].val["name"] = name THEN Append(F[i - 1], charts[i].val)
                 ELSE F[i - 1]
    IN F[Len(charts)]

RECURSIVE AppendAll(_, _, _, _)
AppendAll(d, overlay, entries, i) ==
    IF i > Len(entries) THEN d
    ELSE AppendAll(BucketAppend(d, overlay, entries[i]), overlay, entries, i + 1)

RECURSIVE get_charts_loop(_, _, _, _, _)
get_charts_loop(charts, files, i, j, acc) ==
    IF i > Len(charts) THEN [status |-> "ok", val |-> acc]
    ELSE LET chart == charts[i] IN
         IF "overlays" \notin DOMAIN chart THEN [status |-> "KeyError", val |-> acc]
         ELSE IF j > Len(chart["overlays"]) THEN get_charts_loop(charts, files, i + 1, 1, acc)
         ELSE LET overlay == chart["overlays"][j]
                  created == BucketCreate(acc, overlay)
              IN
              IF "fromOverlay" \in DOMAIN chart
              THEN LET r == read_charts_from_overlay(chart["fromOverlay"], files) IN
                   IF r.status # "ok" THEN [status |-> r.status, val |-> created]
                   \* chart["name"] is evaluated once per chart of the source overlay
                   ELSE IF "name" \notin DOMAIN chart /\ r.val # <<>>
                        THEN [status |-> "KeyError", val |-> created]
                   ELSE IF "name" \notin DOMAIN chart
                        THEN get_charts_loop(charts, files, i, j + 1, created)
                   ELSE get_charts_loop(charts, files, i, j + 1,
                            AppendAll(created, overlay,
                                      MatchingCharts(r.val, chart["name"]), 1))
              ELSE get_charts_loop(charts, files, i, j + 1,
                                   BucketAppend(created, overlay, chart))

get_charts_from_overlays(charts, files) == get_charts_loop(charts, files, 1, 1, <<>>)

(***************************************************************************)
(* promote.py: generate_kustomize_args                                     *)
(***************************************************************************)
\* A plausible slip: the manifest list is assigned instead of appended to.
ManifestAssign(manifest, overlay, kind, entry) ==
    Put(manifest, overlay, Put(Get(manifest, overlay, EmptyDict), kind, <<entry>>))

\* promotion_manifest[overlay][kind].append(entry), creating what is missing.
ManifestAppend(manifest, overlay, kind, entry) ==
    LET m1 == IF overlay \in DOMAIN manifest THEN manifest
              ELSE Put(manifest, overlay, EmptyDict)
        o1 == IF kind \in DOMAIN m1[overlay] THEN m1[overlay]
              ELSE Put(m1[overlay], kind, <<>>)
    IN Put(m1, overlay, Put(o1, kind, Append(o1[kind], entry)))

\* A plausible slip: the two sides of the argument exchanged.
ArgNameSwapped(name, new_name) == <<new_name, "=", name>>

\* An argument is the sequence of the pieces the f-string joins:
\* f"{name}={new_name}:{new_tag}" and f"{name}={new_name}".
ArgNameTag(name, new_name, new_tag) == <<name, "=", new_name, ":", new_tag>>

ArgName(name, new_name) == <<name, "=", new_name>>

\* The manifest entries generate_kustomize_args appends.
EntryNameTag(name, new_name, new_tag) ==
    [name |-> name, newName |-> new_name, newTag |-> new_tag]

\* A plausible slip: the entry records the name alone.
EntryNameOnly(name, new_name) == [name |-> name]

EntryName(name, new_name) == [name |-> name, newName |-> new_name]

\* The loop of generate_kustomize_args from image i on.
\* Returns [status, args, manifest]; status "KeyError" for image["name"] of
\* an image without name, "ValueError" for the final else branch.
RECURSIVE generate_kustomize_args_loop(_, _, _, _, _)
generate_kustomize_args_loop(overlay, images, i, kustomize_args, manifest) ==
    IF i > Len(images)
    THEN [status |-> "ok", args |-> kustomize_args, manifest |-> manifest]
    ELSE LET image == images[i] IN
         IF "name" \notin DOMAIN image
         THEN [status |-> "KeyError", args |-> kustomize_args, manifest |-> manifest]
         ELSE LET name     == image["name"]
                  new_name == Get(image, "newName", name)
                  new_tag  == Get(image, "newTag", None)
              IN
              IF Truthy(new_name) /\ Truthy(new_tag)
              THEN generate_kustomize_args_loop(overlay, images, i + 1,
                       Append(kustomize_args, ArgNameTag(name, new_name, new_tag)),
                       ManifestAppend(manifest, overlay, "images",
                                      EntryNameTag(name, new_name, new_tag)))
              ELSE IF Truthy(new_name)
              THEN generate_kustomize_args_loop(overlay, images, i + 1,
                       Append(kustomize_args, ArgName(name, new_name)),
                       ManifestAppend(manifest, overlay, "images",
                                      EntryName(name, new_name)))
              ELSE [status |-> "ValueError", args |-> kustomize_args,
                    manifest |-> manifest]

generate_kustomize_args(overlay, images, manifest) ==
    generate_kustomize_args_loop(overlay, images, 1, <<>>, manifest)

(***************************************************************************)
(* The external commands.  `kustomize edit set image` overwrites the       *)
(* overlay's declaration of each named image (adding it when the overlay   *)
(* has none); it fails, changing nothing, when the overlay has no readable *)
(* kustomization.yaml or when the environment makes it fail.               *)
(***************************************************************************)
\* The declaration an argument name=newName[:newTag] stands for.
ParseArg(arg) ==
    IF Len(arg) = 5 THEN [name |-> arg[1], newName |-> arg[3], newTag |-> arg[5]]
    ELSE [name |-> arg[1], newName |-> arg[3]]

\* A command that adds a declaration instead of overwriting the one present.
AddOneImage(images, decl) == Append(images, decl)

SetOneImage(images, decl) ==
    IF \E i \in DOMAIN images : Get(images[i], "name", None) = decl.name
    THEN [i \in DOMAIN images |->
            IF Get(images[i], "name", None) = decl.name THEN decl ELSE images[i]]
    ELSE Append(images, decl)

RECURSIVE SetImages(_, _, _)
SetImages(images, args, i) ==
    IF i > Len(args) THEN images
    ELSE SetImages(SetOneImage(images, ParseArg(args[i])), args, i + 1)

\* The overlay's document after `kustomize edit set image args...`.
SetImage(kust, args) == Put(kust, "images", SetImages(Get(kust, "images", <<>>), args, 1))

\* os.path.join(deployment_dir, env): paths are sequences of components.
Join(dir, env) == Append(dir, env)

(***************************************************************************)
(* promote.py: update_kustomize_images                                     *)
(***************************************************************************)
\* A plausible slip: one `kustomize edit set image` call per image.
UnbatchedCalls(env, kustomize_args, ok) ==
    [i \in DOMAIN kustomize_args |->
        [cmd |-> "set_image", overlay |-> env, args |-> <<kustomize_args[i]>>, ok |-> ok]]

\* The commands update_kustomize_images runs for the arguments: one call
\* carrying them all, none when there are no arguments.
SetImageCalls(env, kustomize_args, ok) ==
    IF kustomize_args # <<>>
    THEN <<[cmd |-> "set_image", overlay |-> env, args |-> kustomize_args, ok |-> ok]>>
    ELSE <<>>

\* Returns [status, manifest, fs, commands, cwd]: the manifest returned, the
\* files, the commands invoked and the working directory at the end, with
\* status "ok" or the name of what ended the process.  cmd_ok: whether the
\* environment lets the kustomize command succeed.
update_kustomize_images(env, dep_dir, images, manifest, files, cmd_ok, cwd0) ==
    LET kustomize_dir == Join(dep_dir, env) IN
    IF ~files[env].isdir
    THEN [status |-> "SystemExit", manifest |-> manifest, fs |-> files,
          commands |-> <<>>, cwd |-> cwd0]
    ELSE LET g  == generate_kustomize_args(env, images, manifest)
             ok == cmd_ok /\ files[env].file = "yaml"
         IN
         IF g.status # "ok"
         THEN [status |-> g.status, manifest |-> g.manifest, fs |-> files,
               commands |-> <<>>, cwd |-> kustomize_dir]
         ELSE IF g.args # <<>> /\ ~ok
         THEN [status |-> "SystemExit", manifest |-> g.manifest, fs |-> files,
               commands |-> SetImageCalls(env, g.args, ok), cwd |-> kustomize_dir]
         ELSE [status |-> "ok", manifest |-> g.manifest,
               fs |-> IF g.args # <<>>
                      THEN [files EXCEPT ![env].kust = SetImage(@, g.args)]
                      ELSE files,
               commands |-> SetImageCalls(env, g.args, ok), cwd |-> dep_dir]

(***************************************************************************)
(* promote.py: update_kustomize_charts                                     *)
(***************************************************************************)
\* A plausible slip: the matched declaration is replaced by the request.
RECURSIVE update_chart_loop_replacing(_, _, _, _, _, _)
update_chart_loop_replacing(overlay, chart, helmCharts, i, found, manifest) ==
    IF i > Len(helmCharts)
    THEN [status |-> "ok", helmCharts |-> helmCharts, found |-> found,
          manifest |-> manifest]
    ELSE IF "name" \notin DOMAIN helmCharts[i] \/ "name" \notin DOMAIN chart
    THEN [status |-> "KeyError", helmCharts |-> helmCharts, found |-> found,
          manifest |-> manifest]
    ELSE IF helmCharts[i]["name"] = chart["name"]
    THEN update_chart_loop_replacing(overlay, chart, [helmCharts EXCEPT ![i] = chart],
                                     i + 1, TRUE,
                                     ManifestAppend(manifest, overlay, "charts", chart))
    ELSE update_chart_loop_replacing(overlay, chart, helmCharts, i + 1, found, manifest)

\* The inner loop `for i, helm_chart in enumerate(kustomization["helmCharts"])`
\* for one chart, from index i on.  Returns [status, helmCharts, found, manifest].
RECURSIVE update_chart_loop(_, _, _, _, _, _)
update_chart_loop(overlay, chart, helmCharts, i, found, manifest) ==
    IF i > Len(helmCharts)
    THEN [status |-> "ok", helmCharts |-> helmCharts, found |-> found,
          manifest |-> manifest]
    ELSE IF "name" \notin DOMAIN helmCharts[i] \/ "name" \notin DOMAIN chart
    THEN [status |-> "KeyError", helmCharts |-> helmCharts, found |-> found,
          manifest |-> manifest]
    ELSE IF helmCharts[i]["name"] = chart["name"]
    THEN IF "version" \notin DOMAIN chart
         THEN [status |-> "KeyError", helmCharts |-> helmCharts, found |-> TRUE,
               manifest |-> manifest]
         ELSE update_chart_loop(overlay, chart,
                  [helmCharts EXCEPT ![i] = Put(@, "version", chart["version"])],
                  i + 1, TRUE,
                  ManifestAppend(manifest, overlay, "charts", chart))
    ELSE update_chart_loop(overlay, chart, helmCharts, i + 1, found, manifest)

\* A plausible slip: a chart that is not found is skipped.
RECURSIVE update_charts_loop_skipping(_, _, _, _, _)
update_charts_loop_skipping(overlay, charts, c, helmCharts, manifest) ==
    IF c > Len(charts)
    THEN [status |-> "ok", helmCharts |-> helmCharts, manifest |-> manifest]
    ELSE LET r == update_chart_loop(overlay, charts[c], helmCharts, 1, FALSE, manifest) IN
         IF r.status # "ok"
         THEN [status |-> r.status, helmCharts |-> r.helmCharts, manifest |-> r.manifest]
         ELSE update_charts_loop_skipping(overlay, charts, c + 1, r.helmCharts, r.manifest)

\* The outer loop `for chart in charts`, from chart c on.
\* Returns [status, helmCharts, manifest]; "SystemExit" when a chart is not found.
RECURSIVE update_charts_loop(_, _, _, _, _)
update_charts_loop(overlay, charts, c, helmCharts, manifest) ==
    IF c > Len(charts)
    THEN [status |-> "ok", helmCharts |-> helmCharts, manifest |-> manifest]
    ELSE LET r == update_chart_loop(overlay, charts[c], helmCharts, 1, FALSE, manifest) IN
         IF r.status # "ok"
         THEN [status |-> r.status, helmCharts |-> r.helmCharts, manifest |-> r.manifest]
         ELSE IF ~r.found
         THEN [status |-> "SystemExit", helmCharts |-> r.helmCharts,
               manifest |-> r.manifest]
         ELSE update_charts_loop(overlay, charts, c + 1, r.helmCharts, r.manifest)

\* Returns [status, manifest, fs, commands, writes, cwd].  fmt_ok: whether
\* the environment lets `kustomize cfg fmt` succeed.
update_kustomize_charts(overlay, dep_dir, charts, manifest, files, fmt_ok, cwd0) ==
    LET kustomize_dir == Join(dep_dir, overlay)
        Stop(status, m, dir) ==
            [status |-> status, manifest |-> m, fs |-> files, commands |-> <<>>,
             writes |-> <<>>, cwd |-> dir]
    IN
    IF ~files[overlay].isdir THEN Stop("SystemExit", manifest, cwd0)
    ELSE IF files[overlay].file = "missing"
    THEN Stop("FileNotFoundError", manifest, kustomize_dir)
    ELSE IF files[overlay].file = "invalid"
    THEN Stop("YAMLError", manifest, kustomize_dir)
    ELSE IF "helmCharts" \notin DOMAIN files[overlay].kust
    THEN Stop("SystemExit", manifest, kustomize_dir)
    ELSE LET r == update_charts_loop(overlay, charts, 1,
                                     files[overlay].kust["helmCharts"], manifest)
         IN
         IF r.status # "ok" THEN Stop(r.status, r.manifest, kustomize_dir)
         ELSE [status   |-> IF fmt_ok THEN "ok" ELSE "CalledProcessError",
               manifest |-> r.manifest,
               fs       |-> [files EXCEPT ![overlay].kust =
                                Put(@, "helmCharts", r.helmCharts)],
               commands |-> <<[cmd |-> "fmt", overlay |-> overlay,
                               args |-> <<>>, ok |-> fmt_ok]>>,
               writes   |-> <<overlay>>,
               cwd      |-> IF fmt_ok THEN dep_dir ELSE kustomize_dir]

(***************************************************************************)
(* promote.py: main                                                        *)
(***************************************************************************)
\* The directory the process is started in.
StartDir == <<"work">>

\* A plausible slip: the failure is logged and main goes on to its last lines.
FailLogged(status) ==
    /\ pc' = "emit"
    /\ exit_code' = "1"
    /\ error' = status

\* exit(1), or an uncaught exception (the interpreter exits with status 1).
Fail(status) ==
    /\ pc' = "done"
    /\ exit_code' = "1"
    /\ error' = status

\* Where main goes once the image loop has processed n items.
AfterImages(n) ==
    IF n < Len(overlays_to_images) THEN "update_images"
    ELSE IF overlays_to_charts # <<>> THEN "update_charts"
    ELSE "emit"

\* Where main goes once the chart loop has processed n items.
AfterCharts(n) == IF n < Len(overlays_to_charts) THEN "update_charts" ELSE "emit"

\* validate_runtime_environment, get_deployment_dir and the two
\* load_promotion_json calls; the change-sets are held parsed.
\* kustomize_ok: `kustomize version` succeeds; dir_ok: DEPLOYMENT_DIR is a directory.
Start ==
    /\ pc = "start"
    /\ \E kustomize_ok, dir_ok \in BOOLEAN :
          IF kustomize_ok /\ dir_ok
          THEN pc' = "validate" /\ UNCHANGED <<exit_code, error>>
          ELSE Fail("SystemExit")
    /\ UNCHANGED <<images_to_update, charts_to_update, fs, fs0, overlays_to_images,
                   overlays_to_charts, promotion_manifest, idx, stdout, commands,
                   writes, cwd, deployment_dir, fn_in, fn_out>>

\* A plausible slip: the check for two empty change-sets left out.
validate_promotion_lists_unguarded(images, charts) ==
    IF validate_images(images, FALSE) = "SystemExit" THEN "SystemExit"
    ELSE IF validate_charts(charts, FALSE) = "SystemExit" THEN "SystemExit"
    ELSE "None"

\* promote.validate_promotion_lists: "SystemExit", or "None" when it returns
\* (the values validate_images and validate_charts return are not used).
validate_promotion_lists(images, charts) ==
    IF Len(images) = 0 /\ Len(charts) = 0 THEN "SystemExit"
    ELSE IF validate_images(images, FALSE) = "SystemExit" THEN "SystemExit"
    ELSE IF validate_charts(charts, FALSE) = "SystemExit" THEN "SystemExit"
    ELSE "None"

Validate ==
    /\ pc = "validate"
    /\ IF validate_promotion_lists(images_to_update, charts_to_update) = "SystemExit"
       THEN Fail("SystemExit")
       ELSE pc' = "resolve_images" /\ UNCHANGED <<exit_code, error>>
    /\ UNCHANGED <<images_to_update, charts_to_update, fs, fs0, overlays_to_images,
                   overlays_to_charts, promotion_manifest, idx, stdout, commands,
                   writes, cwd, deployment_dir, fn_in, fn_out>>

ResolveImages ==
    /\ pc = "resolve_images"
    /\ LET r == get_images_from_overlays(images_to_update, fs) IN
       IF r.status = "ok"
       THEN /\ overlays_to_images' = r.val
            /\ pc' = "resolve_charts"
            /\ UNCHANGED <<exit_code, error>>
       ELSE Fail(r.status) /\ UNCHANGED overlays_to_images
    /\ UNCHANGED <<images_to_update, charts_to_update, fs, fs0, overlays_to_charts,
                   promotion_manifest, idx, stdout, commands, writes, cwd,
                   deployment_dir, fn_in, fn_out>>

ResolveCharts ==
    /\ pc = "resolve_charts"
    /\ LET r == get_charts_from_overlays(charts_to_update, fs) IN
       IF r.status = "ok"
       THEN /\ overlays_to_charts' = r.val
            /\ pc' = IF overlays_to_images # <<>> THEN "update_images"
                     ELSE IF r.val # <<>> THEN "update_charts"
                     ELSE "emit"
            /\ UNCHANGED <<exit_code, error>>
       ELSE Fail(r.status) /\ UNCHANGED overlays_to_charts
    /\ UNCHANGED <<images_to_update, charts_to_update, fs, fs0, overlays_to_images,
                   promotion_manifest, idx, stdout, commands, writes, cwd,
                   deployment_dir, fn_in, fn_out>>

\* One iteration of `for env, images in overlays_to_images.items()`.
UpdateImages ==
    /\ pc = "update_images"
    /\ idx < Len(overlays_to_images)
    /\ \E cmd_ok \in BOOLEAN :
          LET env    == overlays_to_images[idx + 1].key
              images == overlays_to_images[idx + 1].val
              r == update_kustomize_images(env, deployment_dir, images,
                                           promotion_manifest, fs, cmd_ok, cwd)
          IN
          /\ promotion_manifest' = r.manifest
          /\ fs' = r.fs
          /\ commands' = commands \o r.commands
          /\ cwd' = r.cwd
          /\ IF r.status # "ok" THEN Fail(r.status) /\ UNCHANGED idx
             \* promotion_manifest[env]["images"]
             ELSE IF env \notin DOMAIN r.manifest \/ "images" \notin DOMAIN r.manifest[env]
             THEN Fail("KeyError") /\ UNCHANGED idx
             ELSE /\ idx' = IF idx + 1 < Len(overlays_to_images) THEN idx + 1 ELSE 0
                  /\ pc' = AfterImages(idx + 1)
                  /\ UNCHANGED <<exit_code, error>>
    /\ UNCHANGED <<images_to_update, charts_to_update, fs0, overlays_to_images,
                   overlays_to_charts, stdout, writes, deployment_dir, fn_in, fn_out>>

\* One iteration of `for env, charts in overlays_to_charts.items()`.
UpdateCharts ==
    /\ pc = "update_charts"
    /\ idx < Len(overlays_to_charts)
    /\ \E fmt_ok \in BOOLEAN :
          LET env    == overlays_to_charts[idx + 1].key
              charts == overlays_to_charts[idx + 1].val
              r == update_kustomize_charts(env, deployment_dir, charts,
                                           promotion_manifest, fs, fmt_ok, cwd)
          IN
          /\ promotion_manifest' = r.manifest
          /\ fs' = r.fs
          /\ commands' = commands \o r.commands
          /\ writes' = writes \o r.writes
          /\ cwd' = r.cwd
          /\ IF r.status # "ok" THEN Fail(r.status) /\ UNCHANGED idx
             \* promotion_manifest[env]["charts"]
             ELSE IF env \notin DOMAIN r.manifest \/ "charts" \notin DOMAIN r.manifest[env]
             THEN Fail("KeyError") /\ UNCHANGED idx
             ELSE /\ idx' = IF idx + 1 < Len(overlays_to_charts) THEN idx + 1 ELSE 0
                  /\ pc' = AfterCharts(idx + 1)
                  /\ UNCHANGED <<exit_code, error>>
    /\ UNCHANGED <<images_to_update, charts_to_update, fs0, overlays_to_images,
                   overlays_to_charts, stdout, deployment_dir, fn_in, fn_out>>

\* print(json.dumps(promotion_manifest)); exit(0)
Emit ==
    /\ pc = "emit"
    /\ stdout' = Append(stdout, promotion_manifest)
    /\ exit_code' = "0"
    /\ pc' = "done"
    /\ UNCHANGED <<images_to_update, charts_to_update, fs, fs0, overlays_to_images,
                   overlays_to_charts, promotion_manifest, idx, error, commands,
                   writes, cwd, deployment_dir, fn_in, fn_out>>

\* The state main starts in, the change-sets, the files and the absolute
\* path of DEPLOYMENT_DIR drawn from the sets given.
MainInitIn(image_lists, chart_lists, file_systems, roots) ==
    /\ images_to_update \in image_lists
    /\ charts_to_update \in chart_lists
    /\ fs \in file_systems
    /\ fs0 = fs
    /\ pc = "start"
    /\ overlays_to_images = <<>>
    /\ overlays_to_charts = <<>>
    /\ promotion_manifest = EmptyDict
    /\ idx = 0
    /\ exit_code = "running"
    /\ error = ""
    /\ stdout = <<>>
    /\ commands = <<>>
    /\ writes = <<>>
    /\ cwd = StartDir
    /\ deployment_dir \in roots
    /\ fn_in = <<>>
    /\ fn_out = <<>>

\* The state main starts in when DEPLOYMENT_DIR is unset: the deployment
\* directory is the directory the process is started in.
MainInit(image_lists, chart_lists, file_systems) ==
    MainInitIn(image_lists, chart_lists, file_systems, {StartDir})

(***************************************************************************)
(* Spec: runs of main over image and chart change-sets                     *)
(***************************************************************************)
MaxImages == 2
MaxCharts == 1

\* Image requests: {name, newTag?, fromOverlay?, overlays}.
SpecImageRequests ==
    {n @@ t @@ f @@ o :
        n \in Req("name", {"a", "b"}), t \in Opt("newTag", {"v1"}),
        f \in Opt("fromOverlay", {"dev"}),
        o \in Req("overlays", {<<"prod">>, <<"dev", "prod">>})}

\* Chart requests: {name, version?, fromOverlay?, overlays}.
SpecChartRequests ==
    {n @@ v @@ f @@ o :
        n \in Req("name", {"c"}), v \in Opt("version", {"2"}),
        f \in Opt("fromOverlay", {"dev"}),
        o \in Req("overlays", {<<"prod">>, <<"dev", "prod">>})}

\* dev: a directory whose kustomization declares image a or no images, and
\* chart c, another chart, or no charts.
SpecDevStates ==
    {Dir("yaml", i @@ h) :
        i \in Opt("images", {<<[name |-> "a", newName |-> "x0", newTag |-> "v0"]>>}),
        h \in Opt("helmCharts", {<<[name |-> "c", version |-> "1"]>>,
                                 <<[name |-> "d", version |-> "1"]>>})}

\* prod: no directory, or a directory whose kustomization declares chart c or no charts.
SpecProdStates ==
    {NoDir} \cup
    {Dir("yaml", h) : h \in Opt("helmCharts", {<<[name |-> "c", version |-> "0"]>>})}

SpecFileSystems ==
    {("dev" :> d) @@ ("prod" :> p) : d \in SpecDevStates, p \in SpecProdStates}

Init ==
    MainInit(SeqsUpTo(SpecImageRequests, MaxImages),
             SeqsUpTo(SpecChartRequests, MaxCharts), SpecFileSystems)

Next ==
    \/ Start
    \/ Validate
    \/ ResolveImages
    \/ ResolveCharts
    \/ UpdateImages
    \/ UpdateCharts
    \/ Emit

Spec == Init /\ [][Next]_vars

(***************************************************************************)
(* The validation rules as the specification lists them                    *)
(***************************************************************************)
\* Some value of field occurs in two entries.
HasDuplicate(entries, field) ==
    \E i, j \in DOMAIN entries :
        /\ i < j
        /\ field \in DOMAIN entries[i]
        /\ field \in DOMAIN entries[j]
        /\ entries[i][field] = entries[j][field]

\* A user-supplied image request that breaks a per-entry rule.
ImageRuleBroken(image) ==
    \/ "name" \notin DOMAIN image
    \/ "fromOverlay" \in DOMAIN image
         /\ ("newName" \in DOMAIN image \/ "newTag" \in DOMAIN image)
    \/ "fromOverlay" \notin DOMAIN image
         /\ "newName" \notin DOMAIN image /\ "newTag" \notin DOMAIN image
    \/ "overlays" \notin DOMAIN image

\* A user-supplied chart request that breaks a per-entry rule.
ChartRuleBroken(chart) ==
    \/ "name" \notin DOMAIN chart
    \/ "fromOverlay" \in DOMAIN chart /\ "version" \in DOMAIN chart
    \/ "fromOverlay" \notin DOMAIN chart /\ "version" \notin DOMAIN chart
    \/ "overlays" \notin DOMAIN chart

\* The run's change-sets violate a validation rule.
ChangeSetInvalid ==
    \/ \E i \in DOMAIN images_to_update : ImageRuleBroken(images_to_update[i])
    \/ \E i \in DOMAIN charts_to_update : ChartRuleBroken(charts_to_update[i])
    \/ HasDuplicate(images_to_update, "name")
    \/ HasDuplicate(images_to_update, "newName")
    \/ HasDuplicate(charts_to_update, "name")

\* The names an overlay's section declared when the process started.
DeclaredNames(overlay, section) ==
    {fs0[overlay].kust[section][i]["name"] :
        i \in {k \in DOMAIN fs0[overlay].kust[section] :
                  "name" \in DOMAIN fs0[overlay].kust[section][k]}}

\* request takes its values from a source overlay whose section exists and
\* does not declare the request's name.
SourceEntryMissing(request, section) ==
    /\ {"name", "fromOverlay", "overlays"} \subseteq DOMAIN request
    /\ request["overlays"] # <<>>
    /\ request["fromOverlay"] \in DOMAIN fs0
    /\ fs0[request["fromOverlay"]].file = "yaml"
    /\ section \in DOMAIN fs0[request["fromOverlay"]].kust
    /\ request["name"] \notin DeclaredNames(request["fromOverlay"], section)

\* Some external command the run invoked failed.
CommandFailed == \E i \in DOMAIN commands : ~commands[i].ok

\* No external mutation command was invoked and no overlay file was written.
NothingMutated == commands = <<>> /\ writes = <<>> /\ fs = fs0

(***************************************************************************)
(* Claims about runs of main (Spec)                                        *)
(***************************************************************************)
\* C1: validation is fully eager: a run whose image or chart change-set
\* violates a validation rule invokes no external mutation command and
\* writes no overlay file, and when it has ended it has ended in failure.
C1_EagerValidation ==
    ChangeSetInvalid =>
        /\ NothingMutated
        /\ pc = "done" => exit_code = "1"

\* C2: a run ends with status 0 and a printed manifest only on full
\* success; every validation failure, missing source entry and failed
\* external command ends it with status 1 and nothing printed.
C2_ExitStatus ==
    pc = "done" =>
        /\ exit_code \in {"0", "1"}
        /\ exit_code = "0" <=> stdout # <<>>
        /\ (\/ ChangeSetInvalid
            \/ CommandFailed
            \/ \E i \in DOMAIN images_to_update :
                   SourceEntryMissing(images_to_update[i], "images")
            \/ \E i \in DOMAIN charts_to_update :
                   SourceEntryMissing(charts_to_update[i], "helmCharts"))
           => exit_code = "1" /\ stdout = <<>>

\* C7: a request with fromOverlay whose name the source overlay does not
\* declare stops the run before the mutation phase: no external command is
\* invoked, no overlay file is written, and the run ends in failure.
C7_MissingSourceEntryStops ==
    (\/ \E i \in DOMAIN images_to_update :
            SourceEntryMissing(images_to_update[i], "images")
     \/ \E i \in DOMAIN charts_to_update :
            SourceEntryMissing(charts_to_update[i], "helmCharts"))
    => /\ NothingMutated
       /\ pc \notin {"update_images", "update_charts", "emit"}
       /\ pc = "done" => exit_code = "1"

(***************************************************************************)
(* Function-level specifications: the arguments are drawn by Init into     *)
(* fn_in, an action calls the function once and appends what it returned   *)
(* to fn_out.                                                              *)
(***************************************************************************)
\* The state before a call, the arguments and the files drawn from the sets given.
FnInit(inputs, file_systems) ==
    /\ fn_in \in inputs
    /\ fn_out = <<>>
    /\ fs \in file_systems
    /\ fs0 = fs
    /\ pc = "call"
    /\ images_to_update = <<>>
    /\ charts_to_update = <<>>
    /\ overlays_to_images = <<>>
    /\ overlays_to_charts = <<>>
    /\ promotion_manifest = EmptyDict
    /\ idx = 0
    /\ exit_code = "running"
    /\ error = ""
    /\ stdout = <<>>
    /\ commands = <<>>
    /\ writes = <<>>
    /\ cwd = StartDir
    /\ deployment_dir = StartDir

\* The function returns val.
Return(val) ==
    /\ pc = "call"
    /\ pc' = "returned"
    /\ fn_out' = Append(fn_out, val)
    /\ UNCHANGED <<images_to_update, charts_to_update, fs, fs0, overlays_to_images,
                   overlays_to_charts, promotion_manifest, idx, exit_code, error,
                   stdout, commands, writes, cwd, deployment_dir, fn_in>>

\* A file system in which no overlay matters.
NoFiles == {("dev" :> NoDir) @@ ("prod" :> NoDir)}

(***************************************************************************)
(* SpecDup: find_duplicates and the validators on change-sets long enough  *)
(* to hold two different duplicated names                                  *)
(***************************************************************************)
MaxDupLen == 5

\* Entries {name?, newTag, overlays}.
DupEntries ==
    {n @@ t @@ o :
        n \in Opt("name", {"a", "b"}), t \in Req("newTag", {"v1"}),
        o \in Req("overlays", {<<"dev">>, <<"prod">>})}

Call_find_duplicates ==
    Return([op |-> "find_duplicates", ret |-> find_duplicates(fn_in.images, "name")])

Call_validate_images ==
    Return([op |-> "validate_images", ret |-> validate_images(fn_in.images, FALSE)])

Call_validate_py_validate_images ==
    Return([op |-> "validate.validate_images",
            ret |-> validate_py_validate_images(fn_in.images, FALSE)])

InitDup == FnInit({[images |-> l] : l \in SeqsUpTo(DupEntries, MaxDupLen)}, NoFiles)

NextDup ==
    \/ Call_find_duplicates
    \/ Call_validate_images
    \/ Call_validate_py_validate_images

SpecDup == InitDup /\ [][NextDup]_vars

\* The values of field that occur in at least two of the entries having the field.
OccurringTwice(entries, field) ==
    {entries[i][field] :
        i \in {k \in DOMAIN entries :
                 /\ field \in DOMAIN entries[k]
                 /\ \E j \in DOMAIN entries \ {k} :
                        field \in DOMAIN entries[j] /\ entries[j][field] = entries[k][field]}}

\* C3: find_duplicates reports exactly the name values that occur at least
\* twice among the entries that have a name (entries without the field are
\* ignored, whatever overlays the entries target), and whenever there is
\* such a name validation fails: promote.validate_images exits,
\* validate.validate_images returns False and reports that same set.
C3_DuplicatesReported ==
    \A k \in DOMAIN fn_out :
        LET out == fn_out[k]
            dup == OccurringTwice(fn_in.images, "name")
        IN
        /\ out.op = "find_duplicates" => out.ret = dup
        /\ out.op = "validate_images" /\ dup # {} => out.ret = "SystemExit"
        /\ out.op = "validate.validate_images" /\ dup # {} =>
               /\ ~out.ret.ret
               /\ [kind |-> "duplicate names", names |-> dup] \in Range(out.ret.errors)

\* C3 witness: a change-set with two different duplicated names, among
\* entries that target different overlays and one entry without a name,
\* was searched and both names were reported.
C3_Witness ==
    /\ fn_out # <<>>
    /\ fn_out[1].op = "find_duplicates"
    /\ fn_out[1].ret = {"a", "b"}
    /\ \E i \in DOMAIN fn_in.images : "name" \notin DOMAIN fn_in.images[i]

(***************************************************************************)
(* SpecArgs: generate_kustomize_args on lists of resolved image entries,   *)
(* the values possibly empty strings, with an empty or a populated         *)
(* manifest                                                                *)
(***************************************************************************)
MaxArgImages == 2

\* Entries {name, newName?, newTag?}.
ArgEntries ==
    {n @@ x @@ t :
        n \in Req("name", {"a", "b"}), x \in Opt("newName", {"", "x"}),
        t \in Opt("newTag", {"", "v1"})}

\* The manifest before the call: empty, or holding what an earlier overlay
\* and an earlier chart update of this overlay recorded.
ArgManifests ==
    {EmptyDict,
     ("dev" :> ("images" :> <<[name |-> "a", newName |-> "a"]>>))
        @@ ("prod" :> ("charts" :> <<[name |-> "c", version |-> "2"]>>))}

Call_generate_kustomize_args ==
    Return([op |-> "generate_kustomize_args",
            ret |-> generate_kustomize_args(fn_in.overlay, fn_in.images, fn_in.manifest)])

InitArgs ==
    FnInit({[overlay |-> "prod", images |-> l, manifest |-> m] :
                l \in SeqsUpTo(ArgEntries, MaxArgImages), m \in ArgManifests},
           NoFiles)

NextArgs == Call_generate_kustomize_args

SpecArgs == InitArgs /\ [][NextArgs]_vars

\* The images list the manifest holds for overlay, empty when it holds none.
ManifestImages(manifest, overlay) ==
    IF overlay \in DOMAIN manifest /\ "images" \in DOMAIN manifest[overlay]
    THEN manifest[overlay]["images"] ELSE <<>>

NonEmpty(image, field) == field \in DOMAIN image /\ image[field] # ""

\* The argument and the manifest entry of an image, a field counting as set
\* when it is present and not the empty string.
ExpectedArg(image) ==
    LET name     == image["name"]
        new_name == IF "newName" \in DOMAIN image THEN image["newName"] ELSE name
    IN IF NonEmpty(image, "newTag")
       THEN <<name, "=", new_name, ":", image["newTag"]>>
       ELSE <<name, "=", new_name>>

ExpectedEntry(image) ==
    LET name     == image["name"]
        new_name == IF "newName" \in DOMAIN image THEN image["newName"] ELSE name
    IN IF NonEmpty(image, "newTag")
       THEN [name |-> name, newName |-> new_name, newTag |-> image["newTag"]]
       ELSE [name |-> name, newName |-> new_name]

MaxRuns == 2
MaxIdemImages == 2

\* Resolved entries {name, newName?, newTag?}.
IdemEntries ==
    {n @@ x @@ t :
        n \in Req("name", {"a", "b"}), x \in Opt("newName", {"x", "y"}),
        t \in Opt("newTag", {"v1"})}

\* prod: no directory, a directory without kustomization.yaml, or one
\* whose kustomization declares no image, image a, or image a twice.
IdemProdStates ==
    {NoDir, Dir("missing", EmptyDict), Dir("yaml", EmptyDict),
     Dir("yaml", "images" :> <<[name |-> "a", newName |-> "a", newTag |-> "v0"]>>),
     Dir("yaml", "images" :> <<[name |-> "a", newTag |-> "v0"], [name |-> "a", newName |-> "x"]>>)}

\* One run of update_kustomize_images for fn_in.overlay; fn_out records
\* how it ended, the manifest it built and the files it left.
Run_update_kustomize_images ==
    /\ pc = "call"
    /\ Len(fn_out) < MaxRuns
    /\ \E cmd_ok \in BOOLEAN :
          LET r == update_kustomize_images(fn_in.overlay, deployment_dir, fn_in.images,
                                           EmptyDict, fs, cmd_ok, StartDir)
          IN
          /\ fs' = r.fs
          /\ commands' = commands \o r.commands
          /\ cwd' = r.cwd
          /\ fn_out' = Append(fn_out, [op |-> "update_kustomize_images",
                                       status |-> r.status, manifest |-> r.manifest,
                                       fs |-> r.fs, cmd_ok |-> cmd_ok])
    /\ UNCHANGED <<images_to_update, charts_to_update, fs0, pc, overlays_to_images,
                   overlays_to_charts, promotion_manifest, idx, exit_code, error,
                   stdout, writes, deployment_dir, fn_in>>

InitIdem ==
    FnInit({[overlay |-> "prod", images |-> l] : l \in SeqsUpTo(IdemEntries, MaxIdemImages)},
           {("dev" :> NoDir) @@ ("prod" :> p) : p \in IdemProdStates})

NextIdem == Run_update_kustomize_images

SpecIdem == InitIdem /\ [][NextIdem]_vars

\* C5: with the set-image command overwriting the overlay's declaration of
\* each name, a run in an overlay directory holding a kustomization.yaml
\* succeeds whenever its command does; and when a run has succeeded, every
\* later run with the same entries whose command succeeds also succeeds,
\* builds the same manifest and leaves the overlay's files as the earlier
\* run left them.
C5_Idempotence ==
    /\ \A k \in DOMAIN fn_out :
          fs0[fn_in.overlay].isdir /\ fs0[fn_in.overlay].file = "yaml" /\ fn_out[k].cmd_ok
              => fn_out[k].status = "ok"
    /\ \A k, l \in DOMAIN fn_out :
          k < l /\ fn_out[k].status = "ok" /\ fn_out[l].cmd_ok =>
              /\ fn_out[l].status = "ok"
              /\ fn_out[l].manifest = fn_out[k].manifest
              /\ fn_out[l].fs = fn_out[k].fs

\* C5 witness: two successful runs with two entries against an overlay
\* that declared image a differently, the first run having rewritten it.
C5_Witness ==
    /\ Len(fn_out) = 2
    /\ fn_out[1].status = "ok" /\ fn_out[2].status = "ok"
    /\ Len(fn_in.images) = 2
    /\ Len(commands) = 2
    /\ fn_out[1].fs # fs0
    /\ fn_out[1].manifest # EmptyDict
    /\ "images" \in DOMAIN fs0[fn_in.overlay].kust

(***************************************************************************)
(* SpecCharts: update_kustomize_charts on one overlay whose kustomization  *)
(* declares a helmCharts list, with resolved charts that the list may or   *)
(* may not declare                                                         *)
(***************************************************************************)
MaxChartRequests == 2
MaxHelmCharts == 2

\* Resolved charts {name, version?}.
ChartEntries ==
    {n @@ v : n \in Req("name", {"c", "d", "e"}), v \in Opt("version", {"2"})}

\* Declarations of the overlay's helmCharts list {name, version, releaseName?}.
HelmChartDeclarations ==
    {n @@ v @@ r :
        n \in Req("name", {"c", "d"}), v \in Req("version", {"1"}),
        r \in Opt("releaseName", {"rel"})}

\* One call of update_kustomize_charts for fn_in.overlay.
Call_update_kustomize_charts ==
    /\ pc = "call"
    /\ \E fmt_ok \in BOOLEAN :
          LET r == update_kustomize_charts(fn_in.overlay, deployment_dir, fn_in.charts,
                                           EmptyDict, fs, fmt_ok, StartDir)
          IN
          /\ fs' = r.fs
          /\ commands' = commands \o r.commands
          /\ writes' = writes \o r.writes
          /\ cwd' = r.cwd
          /\ fn_out' = Append(fn_out, [op |-> "update_kustomize_charts",
                                       status |-> r.status, manifest |-> r.manifest])
    /\ pc' = "returned"
    /\ UNCHANGED <<images_to_update, charts_to_update, fs0, overlays_to_images,
                   overlays_to_charts, promotion_manifest, idx, exit_code, error,
                   stdout, deployment_dir, fn_in>>

InitCharts ==
    FnInit({[overlay |-> "prod", charts |-> l] : l \in SeqsUpTo(ChartEntries, MaxChartRequests)},
           {("dev" :> NoDir) @@ ("prod" :> Dir("yaml", "helmCharts" :> h)) :
                h \in SeqsUpTo(HelmChartDeclarations, MaxHelmCharts)})

NextCharts == Call_update_kustomize_charts

SpecCharts == InitCharts /\ [][NextCharts]_vars

\* Some requested chart's name is not declared in the overlay's helmCharts list.
SomeChartAbsent ==
    \E i \in DOMAIN fn_in.charts :
        fn_in.charts[i]["name"] \notin DeclaredNames(fn_in.overlay, "helmCharts")

\* C8: a chart update in which some requested chart name is absent from
\* the overlay's helmCharts list fails and changes nothing: the overlay's
\* kustomization.yaml is not written and is as it was, whatever charts
\* were found before the absent one, and `kustomize cfg fmt` is not run.
\* The failure is the not-found exit, unless a chart found before the
\* absent one has no version to take (then it is the KeyError of
\* chart["version"]).
C8_AbsentChartNoWrite ==
    \A k \in DOMAIN fn_out :
        SomeChartAbsent =>
            /\ fn_out[k].status \in {"SystemExit", "KeyError"}
            /\ (\A i \in DOMAIN fn_in.charts : "version" \in DOMAIN fn_in.charts[i])
                   => fn_out[k].status = "SystemExit"
            /\ writes = <<>>
            /\ fs = fs0
            /\ commands = <<>>

\* C8 witness: chart c, declared by the overlay, was requested before
\* chart e, which the overlay does not declare; the call ended with the
\* not-found exit.
C8_Witness ==
    /\ fn_out # <<>>
    /\ fn_out[1].status = "SystemExit"
    /\ Len(fn_in.charts) = 2
    /\ fn_in.charts[1]["name"] = "c" /\ "version" \in DOMAIN fn_in.charts[1]
    /\ fn_in.charts[2]["name"] = "e"
    /\ "c" \in DeclaredNames(fn_in.overlay, "helmCharts")

(***************************************************************************)
(* SpecImages: runs of main over image change-sets with literal values     *)
(* (CHARTS_TO_UPDATE unset), a request possibly naming an overlay twice    *)
(* or giving the empty string as newName                                   *)
(***************************************************************************)
MaxImageRequests == 2

\* Image requests with literal values: {name, newName?, newTag?, overlays}.
LiteralImageRequests ==
    {n @@ x @@ t @@ o :
        n \in Req("name", {"a", "b"}), x \in Opt("newName", {"", "x"}),
        t \in Opt("newTag", {"v1"}),
        o \in Req("overlays", {<<"prod">>, <<"dev", "prod">>, <<"prod", "prod">>})}

\* dev exists; prod does not exist, or exists declaring image a.
LiteralFileSystems ==
    {("dev" :> Dir("yaml", EmptyDict)) @@ ("prod" :> p) :
        p \in {NoDir,
               Dir("yaml", "images" :> <<[name |-> "a", newName |-> "a", newTag |-> "v0"]>>)}}

InitImages ==
    MainInit(SeqsUpTo(LiteralImageRequests, MaxImageRequests), {<<>>}, LiteralFileSystems)

NextImages ==
    \/ Start
    \/ Validate
    \/ ResolveImages
    \/ ResolveCharts
    \/ UpdateImages
    \/ Emit

SpecImages == InitImages /\ [][NextImages]_vars

\* The overlays the image change-set targets.
TargetOverlays ==
    UNION {Range(images_to_update[i]["overlays"]) : i \in DOMAIN images_to_update}

\* The manifest entry {name, newName, newTag?} of a literal request.
AppliedChange(request) ==
    LET new_name == IF "newName" \in DOMAIN request THEN request["newName"]
                    ELSE request["name"]
    IN IF "newTag" \in DOMAIN request
       THEN [name |-> request["name"], newName |-> new_name, newTag |-> request["newTag"]]
       ELSE [name |-> request["name"], newName |-> new_name]

\* The requests among the first n that target overlay, one entry per
\* request, in the order supplied.
RECURSIVE OnePerRequest(_, _)
OnePerRequest(overlay, n) ==
    IF n = 0 THEN <<>>
    ELSE IF overlay \in Range(images_to_update[n]["overlays"])
         THEN Append(OnePerRequest(overlay, n - 1), AppliedChange(images_to_update[n]))
         ELSE OnePerRequest(overlay, n - 1)

\* k copies of entry appended to s.
RECURSIVE AppendTimes(_, _, _)
AppendTimes(s, entry, k) == IF k = 0 THEN s ELSE AppendTimes(Append(s, entry), entry, k - 1)

\* As OnePerRequest, with one entry per occurrence of overlay in the
\* request's overlays list.
RECURSIVE OnePerOccurrence(_, _)
OnePerOccurrence(overlay, n) ==
    IF n = 0 THEN <<>>
    ELSE LET o == images_to_update[n]["overlays"] IN
         AppendTimes(OnePerOccurrence(overlay, n - 1), AppliedChange(images_to_update[n]),
                     Cardinality({j \in DOMAIN o : o[j] = overlay}))

\* The run is one the end-to-end statement is about: a valid image
\* change-set with literal values, every target overlay a directory, no
\* external command failed.
LiteralRun ==
    /\ images_to_update # <<>>
    /\ ~ChangeSetInvalid
    /\ \A i \in DOMAIN images_to_update : "fromOverlay" \notin DOMAIN images_to_update[i]
    /\ \A o \in TargetOverlays : fs0[o].isdir
    /\ ~CommandFailed

\* C9 (as stated): the manifest such a run emits has exactly the target
\* overlays as keys and maps each to an images list holding exactly one
\* entry {name, newName, newTag?} per request that targets the overlay, in
\* the order the requests were supplied.
C9_ManifestPerRequest ==
    LiteralRun /\ stdout # <<>> =>
        /\ DOMAIN stdout[1] = TargetOverlays
        /\ \A o \in TargetOverlays :
              /\ DOMAIN stdout[1][o] = {"images"}
              /\ stdout[1][o]["images"] = OnePerRequest(o, Len(images_to_update))

\* Some request gives the empty string as newName.
EmptyNewName ==
    \E i \in DOMAIN images_to_update :
        "newName" \in DOMAIN images_to_update[i] /\ images_to_update[i]["newName"] = ""

\* C9 (amended): such a run that got as far as the overlay updates (the
\* runtime checks passed), once ended, has failed with ValueError without
\* printing a manifest if some request gives the empty string as newName, and
\* otherwise has exited with status 0 having printed one manifest, whose
\* keys are exactly the target overlays and which maps each to an images
\* list holding one entry {name, newName, newTag?} per occurrence of the
\* overlay in each request's overlays list (a request naming the overlay
\* twice is recorded twice), in the order the requests were supplied.
C9_ManifestPerOccurrence ==
    LiteralRun /\ pc = "done" /\ overlays_to_images # <<>> =>
        IF EmptyNewName
        THEN exit_code = "1" /\ error = "ValueError" /\ stdout = <<>>
        ELSE /\ exit_code = "0"
             /\ Len(stdout) = 1
             /\ DOMAIN stdout[1] = TargetOverlays
             /\ \A o \in TargetOverlays :
                   /\ DOMAIN stdout[1][o] = {"images"}
                   /\ stdout[1][o]["images"] = OnePerOccurrence(o, Len(images_to_update))

\* C9 witness: a run over two requests, the first targeting dev and prod
\* and the second prod alone, printed a manifest with both overlays.
C9_Witness ==
    /\ LiteralRun
    /\ exit_code = "0"
    /\ Len(images_to_update) = 2
    /\ images_to_update[1]["overlays"] = <<"dev", "prod">>
    /\ images_to_update[2]["overlays"] = <<"prod">>
    /\ "newTag" \notin DOMAIN images_to_update[2]
    /\ DOMAIN stdout[1] = {"dev", "prod"}
    /\ Len(stdout[1]["prod"]["images"]) = 2

(***************************************************************************)
(* SpecFrom: runs of main over image change-sets whose requests give       *)
(* literal values or take them from overlay dev (CHARTS_TO_UPDATE unset)   *)
(***************************************************************************)
\* dev declares image a, images a and b, or no image; prod does not exist
\* or exists with an empty kustomization.
FromFileSystems ==
    {("dev" :> Dir("yaml", i)) @@ ("prod" :> p) :
        i \in Opt("images", {<<[name |-> "a", newName |-> "x0", newTag |-> "v0"]>>,
                             <<[name |-> "a", newName |-> "x0", newTag |-> "v0"],
                               [name |-> "b", newName |-> "b", newTag |-> "v0"]>>}),
        p \in {NoDir, Dir("yaml", EmptyDict)}}

InitFrom == MainInit(SeqsUpTo(SpecImageRequests, MaxImages), {<<>>}, FromFileSystems)

SpecFrom == InitFrom /\ [][NextImages]_vars

\* The declarations of image n in overlay A when the process started.
SourceDeclarations(A, n) ==
    IF A \notin DOMAIN fs0 \/ fs0[A].file # "yaml" \/ "images" \notin DOMAIN fs0[A].kust
    THEN {}
    ELSE {d \in Range(fs0[A].kust["images"]) :
             {"name", "newName", "newTag"} \subseteq DOMAIN d /\ d["name"] = n}

\* Resolution has succeeded: main is past get_images_from_overlays.
ImagesResolved ==
    \/ pc \in {"resolve_charts", "update_images", "update_charts", "emit"}
    \/ pc = "done" /\ (commands # <<>> \/ exit_code = "0")

\* C6: for every image request {name: n, fromOverlay: A, overlays: [..B..]}
\* where A declares n with newName x and newTag t, once resolution has
\* succeeded the bucket of every target overlay B holds A's declaration
\* {name: n, newName: x, newTag: t}, and every `kustomize edit set image`
\* invoked in B carries the argument n=x:t.
C6_FromOverlayResolution ==
    \A i \in DOMAIN images_to_update :
        LET request == images_to_update[i] IN
        {"name", "fromOverlay", "overlays"} \subseteq DOMAIN request =>
            \A d \in SourceDeclarations(request["fromOverlay"], request["name"]) :
            \A B \in Range(request["overlays"]) :
                /\ ImagesResolved =>
                      /\ B \in DictKeys(overlays_to_images)
                      /\ d \in Range(DictGet(overlays_to_images, B))
                /\ \A k \in DOMAIN commands :
                      commands[k].cmd = "set_image" /\ commands[k].overlay = B =>
                          <<d["name"], "=", d["newName"], ":", d["newTag"]>>
                              \in Range(commands[k].args)

\* C6 witness: a request taking image a from dev has been applied in prod,
\* next to a request with literal values, and the command succeeded.
C6_Witness ==
    /\ Len(images_to_update) = 2
    /\ \E i \in DOMAIN images_to_update :
          /\ "fromOverlay" \in DOMAIN images_to_update[i]
          /\ "prod" \in Range(images_to_update[i]["overlays"])
          /\ SourceDeclarations("dev", images_to_update[i]["name"]) # {}
    /\ \E k \in DOMAIN commands :
          /\ commands[k].cmd = "set_image" /\ commands[k].overlay = "prod" /\ commands[k].ok
          /\ <<"a", "=", "x0", ":", "v0">> \in Range(commands[k].args)
          /\ Len(commands[k].args) = 2
    /\ exit_code = "0"

\* C10: in any run `kustomize edit set image` is invoked at most once per
\* overlay, only for an overlay that has a bucket of resolved image
\* entries, and the call carries exactly one argument per entry of that
\* bucket.
C10_BatchedMutation ==
    \A k \in DOMAIN commands :
        commands[k].cmd = "set_image" =>
            /\ \A l \in DOMAIN commands :
                  commands[l].cmd = "set_image" /\ commands[l].overlay = commands[k].overlay
                      => l = k
            /\ commands[k].overlay \in DictKeys(overlays_to_images)
            /\ Len(commands[k].args) = Len(DictGet(overlays_to_images, commands[k].overlay))

\* C10 witness: two overlays were updated, one of them with a single call
\* carrying the arguments of two images.
C10_Witness ==
    /\ \E k, l \in DOMAIN commands :
          /\ commands[k].cmd = "set_image" /\ commands[l].cmd = "set_image"
          /\ commands[k].overlay # commands[l].overlay
          /\ Len(commands[k].args) = 2
          /\ commands[k].ok /\ commands[l].ok
    /\ exit_code = "0"

(***************************************************************************)
(* Claims about runs of main over image and chart change-sets (Spec)       *)
(***************************************************************************)
\* overlay is a target for which nothing was resolved: it has an empty
\* chart bucket and no image bucket.
ZeroEntryOverlay(overlay) ==
    /\ overlay \in DictKeys(overlays_to_charts)
    /\ DictGet(overlays_to_charts, overlay) = <<>>
    /\ overlay \notin DictKeys(overlays_to_images)

\* Every overlay with a bucket is a directory, and every overlay with a
\* chart bucket declared a helmCharts list holding every chart resolved for it.
TargetsReady ==
    /\ \A o \in DictKeys(overlays_to_images) : fs0[o].isdir /\ fs0[o].file = "yaml"
    /\ \A o \in DictKeys(overlays_to_charts) :
          /\ fs0[o].isdir /\ fs0[o].file = "yaml"
          /\ "helmCharts" \in DOMAIN fs0[o].kust
          /\ \A i \in DOMAIN DictGet(overlays_to_charts, o) :
                DictGet(overlays_to_charts, o)[i]["name"] \in DeclaredNames(o, "helmCharts")

\* C11: a run over a valid change-set in which nothing else fails and in
\* which some target overlay has zero resolved entries completes with
\* status 0 and prints a manifest that does not have that overlay as a key.
C11_ZeroEntryOverlayOmitted ==
    \A o \in DictKeys(overlays_to_charts) :
        pc = "done" /\ ZeroEntryOverlay(o) /\ ~ChangeSetInvalid /\ ~CommandFailed
            /\ TargetsReady
        => /\ exit_code = "0"
           /\ Len(stdout) = 1
           /\ o \notin DOMAIN stdout[1]

\* The image changes resolved for overlay have been applied: its
\* `kustomize edit set image` call succeeded.
ImagesApplied(overlay) ==
    \E k \in DOMAIN commands :
        commands[k].cmd = "set_image" /\ commands[k].overlay = overlay /\ commands[k].ok

\* The chart changes resolved for overlay have been applied: its
\* kustomization.yaml was rewritten.
ChartsApplied(overlay) == overlay \in Range(writes)

\* C12: when a run over a valid change-set has terminated, every overlay
\* has either none of the changes resolved for it applied, or all of them
\* (the images if it has an image bucket, and the charts if it has a chart
\* bucket).
C12_OverlayAllOrNothing ==
    pc = "done" /\ ~ChangeSetInvalid =>
        \A o \in DOMAIN fs0 :
            \/ ~ImagesApplied(o) /\ ~ChartsApplied(o)
            \/ /\ o \in DictKeys(overlays_to_images) => ImagesApplied(o)
               /\ o \in DictKeys(overlays_to_charts) => ChartsApplied(o)

(***************************************************************************)
(* SpecMix: runs of main over small image and chart change-sets with       *)
(* literal values against overlays that may lack the directory, the        *)
(* helmCharts list or the chart, every command free to fail                *)
(***************************************************************************)
MaxMixImages == 1
MaxMixCharts == 1

MixImageRequests ==
    {n @@ t @@ o :
        n \in Req("name", {"a"}), t \in Req("newTag", {"v1"}),
        o \in Req("overlays", {<<"prod">>, <<"dev", "prod">>})}

MixChartRequests ==
    {n @@ v @@ r @@ o :
        n \in Req("name", {"c", "e"}), v \in Req("version", {"2"}),
        r \in Opt("releaseName", {"rel2"}),
        o \in Req("overlays", {<<"prod">>, <<"dev", "prod">>})}

\* dev declares chart c or no helmCharts list; prod does not exist, or
\* declares nothing, or declares chart c (with a repo field and an image).
MixFileSystems ==
    {("dev" :> Dir("yaml", h)) @@ ("prod" :> p) :
        h \in Opt("helmCharts", {<<[name |-> "c", version |-> "1"]>>}),
        p \in {NoDir, Dir("yaml", EmptyDict),
               Dir("yaml", ("images" :> <<[name |-> "a", newName |-> "a", newTag |-> "v0"]>>)
                           @@ ("helmCharts" :>
                                 <<[name |-> "c", version |-> "0", releaseName |-> "rel0",
                                    repo |-> "r0"],
                                   [name |-> "d", version |-> "0"]>>))}}

InitMix ==
    MainInit(SeqsUpTo(MixImageRequests, MaxMixImages),
             SeqsUpTo(MixChartRequests, MaxMixCharts), MixFileSystems)

SpecMix == InitMix /\ [][Next]_vars

\* The overlay main is about to update.
CurrentOverlay ==
    IF pc = "update_images" THEN overlays_to_images[idx + 1].key
    ELSE overlays_to_charts[idx + 1].key

\* C13: a failure in the mutation phase ends the run at once: the failing
\* step leaves every other overlay's files as they were (overlays already
\* updated keep their changes, later ones are not touched), keeps the
\* images already set in the failing overlay, invokes no command for
\* another overlay, prints nothing, and no step follows the end of a run.
C13_FailureTerminal ==
    [][/\ pc # "done"
       /\ pc \in {"update_images", "update_charts"} /\ exit_code' = "1" =>
             /\ pc' = "done"
             /\ stdout' = <<>>
             /\ \A o \in DOMAIN fs \ {CurrentOverlay} : fs'[o] = fs[o]
             /\ Get(fs'[CurrentOverlay].kust, "images", <<>>)
                    = Get(fs[CurrentOverlay].kust, "images", <<>>)
             /\ Len(commands') >= Len(commands)
             /\ \A k \in DOMAIN commands' :
                    IF k \in DOMAIN commands THEN commands'[k] = commands[k]
                    ELSE commands'[k].overlay = CurrentOverlay /\ ~commands'[k].ok]_vars

\* C13 witness: a run ended in failure in prod after dev had been updated
\* with its image and its chart, dev keeping both changes.
C13_Witness ==
    /\ pc = "done" /\ exit_code = "1"
    /\ stdout = <<>>
    /\ ImagesApplied("dev") /\ ChartsApplied("dev")
    /\ ~ImagesApplied("prod") \/ ~ChartsApplied("prod")
    /\ fs["dev"] # fs0["dev"]
    /\ fs["dev"].kust["helmCharts"][1]["version"] = "2"
    /\ CommandFailed

(***************************************************************************)
(* SpecValidate: the validators of promote.py and of validate.py on image  *)
(* and chart change-sets in which every field may be present or absent,    *)
(* as a list from the user or as the values of a dict read from an overlay *)
(***************************************************************************)
MaxValidated == 2

\* Image entries {name?, newName?, newTag?, fromOverlay?, overlays?}.
ValidatedImages ==
    {n @@ x @@ t @@ f @@ o :
        n \in Opt("name", {"a"}), x \in Opt("newName", {"x"}), t \in Opt("newTag", {"v1"}),
        f \in Opt("fromOverlay", {"dev"}), o \in Opt("overlays", {<<"prod">>})}

\* Chart entries {name?, version?, fromOverlay?, releaseName?, overlays?}.
ValidatedCharts ==
    {n @@ v @@ f @@ r @@ o :
        n \in Opt("name", {"c"}), v \in Opt("version", {"2"}),
        f \in Opt("fromOverlay", {"dev"}), r \in Opt("releaseName", {"rel"}),
        o \in Opt("overlays", {<<"prod">>})}

Call_promote_validate_images ==
    /\ fn_in.section = "images"
    /\ Return([op |-> "promote.validate_images", collecting |-> FALSE,
               ret |-> validate_images(fn_in.entries, fn_in.originally_dict),
               errors |-> validate_images_fatal(fn_in.entries, fn_in.originally_dict)])

Call_promote_validate_charts ==
    /\ fn_in.section = "charts"
    /\ Return([op |-> "promote.validate_charts", collecting |-> FALSE,
               ret |-> validate_charts(fn_in.entries, fn_in.originally_dict),
               errors |-> validate_charts_fatal(fn_in.entries, fn_in.originally_dict)])

Call_validate_validate_images ==
    /\ fn_in.section = "images"
    /\ LET r == validate_py_validate_images(fn_in.entries, fn_in.originally_dict) IN
       Return([op |-> "validate.validate_images", collecting |-> TRUE,
               ret |-> IF r.ret THEN "True" ELSE "False", errors |-> r.errors])

Call_validate_validate_charts ==
    /\ fn_in.section = "charts"
    /\ LET r == validate_py_validate_charts(fn_in.entries, fn_in.originally_dict) IN
       Return([op |-> "validate.validate_charts", collecting |-> TRUE,
               ret |-> IF r.ret THEN "True" ELSE "False", errors |-> r.errors])

InitValidate ==
    \E d \in BOOLEAN :
        \/ \E l \in SeqsUpTo(ValidatedImages, MaxValidated) :
              FnInit({[section |-> "images", entries |-> l, originally_dict |-> d]}, NoFiles)
        \/ \E l \in SeqsUpTo(ValidatedCharts, MaxValidated) :
              FnInit({[section |-> "charts", entries |-> l, originally_dict |-> d]}, NoFiles)

NextValidate ==
    \/ Call_promote_validate_images
    \/ Call_promote_validate_charts
    \/ Call_validate_validate_images
    \/ Call_validate_validate_charts

SpecValidate == InitValidate /\ [][NextValidate]_vars

\* The violations of a change-set, as the rules list them: a duplicated
\* name or newName, and for entry i a missing name, values given together
\* with fromOverlay, no value and no fromOverlay, a missing overlays field
\* in user-supplied input.
Violations(section, entries, originally_dict) ==
    LET value == IF section = "images" THEN {"newName", "newTag"} ELSE {"version"} IN
    {[rule |-> "duplicate", field |-> f] :
        f \in {g \in (IF section = "images" THEN {"name", "newName"} ELSE {"name"}) :
                 OccurringTwice(entries, g) # {}}}
    \cup {[rule |-> "missing name", entry |-> i] :
            i \in {k \in DOMAIN entries : "name" \notin DOMAIN entries[k]}}
    \cup {[rule |-> "conflict", entry |-> i] :
            i \in {k \in DOMAIN entries :
                     "fromOverlay" \in DOMAIN entries[k] /\ value \cap DOMAIN entries[k] # {}}}
    \cup {[rule |-> "missing value", entry |-> i] :
            i \in {k \in DOMAIN entries :
                     "fromOverlay" \notin DOMAIN entries[k] /\ value \cap DOMAIN entries[k] = {}}}
    \cup {[rule |-> "missing overlays", entry |-> i] :
            i \in {k \in DOMAIN entries :
                     ~originally_dict /\ "overlays" \notin DOMAIN entries[k]}}

\* The error record reports the violation.
Reports(err, violation) ==
    IF violation.rule = "duplicate"
    THEN err.kind = (IF violation.field = "name" THEN "duplicate names"
                     ELSE "duplicate newNames")
    ELSE /\ "entry" \in DOMAIN err
         /\ err.entry = violation.entry
         /\ CASE violation.rule = "missing name"     -> err.kind = "missing name"
              [] violation.rule = "conflict"         ->
                    err.kind \in {"newName with fromOverlay", "newTag with fromOverlay",
                                  "version with fromOverlay"}
              [] violation.rule = "missing value"    ->
                    err.kind \in {"must set newName, newTag or both", "must set version"}
              [] violation.rule = "missing overlays" -> err.kind = "missing overlays"

\* Every violation of the change-set validated is among the errors of out.
ReportsAll(out) ==
    \A v \in Violations(fn_in.section, fn_in.entries, fn_in.originally_dict) :
        \E k \in DOMAIN out.errors : Reports(out.errors[k], v)

FromOverlayOnly(entry) ==
    /\ {"name", "fromOverlay", "overlays"} \subseteq DOMAIN entry
    /\ DOMAIN entry \cap {"newName", "newTag", "version"} = {}

\* C15: a change-set without duplicates whose requests all set name,
\* fromOverlay and overlays and none of newName, newTag or version is
\* accepted by every validator, of promote.py and of validate.py.
C15_FromOverlayOnlyAccepted ==
    \A k \in DOMAIN fn_out :
        /\ \A i \in DOMAIN fn_in.entries : FromOverlayOnly(fn_in.entries[i])
        /\ ~HasDuplicate(fn_in.entries, "name")
        => fn_out[k].ret = "True"

\* entry breaks a per-entry rule of its section; for an entry read from a
\* persisted overlay the overlays rule does not apply.
RuleBroken(section, entry, originally_dict) ==
    LET e == IF originally_dict THEN Put(entry, "overlays", <<>>) ELSE entry IN
    IF section = "images" THEN ImageRuleBroken(e) ELSE ChartRuleBroken(e)

\* C16: on every change-set without duplicates, validate_images and
\* validate_charts (of promote.py and of validate.py) return False if some
\* entry lacks name, sets a value together with fromOverlay, sets neither
\* a value nor fromOverlay, or (list input) lacks overlays, and True
\* otherwise.
C16_ValidationDecision ==
    \A k \in DOMAIN fn_out :
        /\ ~HasDuplicate(fn_in.entries, "name")
        /\ fn_in.section = "images" => ~HasDuplicate(fn_in.entries, "newName")
        => fn_out[k].ret =
              (IF \E i \in DOMAIN fn_in.entries :
                      RuleBroken(fn_in.section, fn_in.entries[i], fn_in.originally_dict)
               THEN "False" ELSE "True")

(***************************************************************************)
(* SpecNames: runs of main over image change-sets whose new names may      *)
(* coincide: given literally, left to the name, or taken from overlay dev  *)
(***************************************************************************)
MaxNameRequests == 2

NameRequests ==
    {n @@ x @@ t @@ f @@ o :
        n \in Req("name", {"a", "b"}), x \in Opt("newName", {"b", "x"}),
        t \in Opt("newTag", {"v1"}), f \in Opt("fromOverlay", {"dev"}),
        o \in Req("overlays", {<<"prod">>})}

\* dev declares image a under the new name b or x; prod exists or not.
NameFileSystems ==
    {("dev" :> Dir("yaml", "images" :> <<[name |-> "a", newName |-> x, newTag |-> "v0"]>>))
        @@ ("prod" :> p) :
        x \in {"b", "x"}, p \in {NoDir, Dir("yaml", EmptyDict)}}

InitNames == MainInit(SeqsUpTo(NameRequests, MaxNameRequests), {<<>>}, NameFileSystems)

SpecNames == InitNames /\ [][NextImages]_vars

\* validate_promotion_lists has returned.
ValidationPassed ==
    pc \in {"resolve_images", "resolve_charts", "update_images", "update_charts", "emit"}

\* get_images_from_overlays has returned.
ResolutionPassed == pc \in {"resolve_charts", "update_images", "update_charts", "emit"}

\* The new name of a resolved entry: its newName, or its name.
ResolvedNewName(entry) == Get(entry, "newName", entry["name"])

\* C17 (as stated): in a valid change-set that validation accepted, no two
\* entries resolve to the same new name (the literal newName, the name when
\* only newTag is given, the source overlay's newName with fromOverlay).
C17_ResolvedNewNamesUnique ==
    ResolutionPassed /\ ~ChangeSetInvalid =>
        \A b \in DOMAIN overlays_to_images :
            \A i, j \in DOMAIN overlays_to_images[b].val :
                i # j => ResolvedNewName(overlays_to_images[b].val[i])
                            # ResolvedNewName(overlays_to_images[b].val[j])

\* C17 (amended): in a change-set that validation accepted no two entries
\* have the same name and no two entries give the same literal newName.
C17_LiteralNewNamesUnique ==
    ValidationPassed =>
        /\ ~HasDuplicate(images_to_update, "newName")
        /\ ~HasDuplicate(images_to_update, "name")

\* C17 witness: a run over two requests that both give a newName was
\* accepted and ended with status 0.
C17_Witness ==
    /\ exit_code = "0"
    /\ Len(images_to_update) = 2
    /\ \A i \in DOMAIN images_to_update : "newName" \in DOMAIN images_to_update[i]
    /\ ~ChangeSetInvalid

\* C18: once the charts resolved for an overlay have been applied (no
\* command having failed), every
\* helmCharts declaration of the overlay that matches a resolved entry by
\* name has the entry's version and, when the entry supplies a
\* releaseName, the entry's releaseName.
C18_VersionAndReleaseNameSet ==
    \A b \in DOMAIN overlays_to_charts :
        LET o == overlays_to_charts[b].key IN
        ChartsApplied(o) /\ ~CommandFailed =>
            \A c \in DOMAIN overlays_to_charts[b].val :
            \A d \in DOMAIN fs[o].kust["helmCharts"] :
                LET chart == overlays_to_charts[b].val[c]
                    decl  == fs[o].kust["helmCharts"][d]
                IN decl["name"] = chart["name"] =>
                      /\ decl["version"] = chart["version"]
                      /\ "releaseName" \in DOMAIN chart =>
                            /\ "releaseName" \in DOMAIN decl
                            /\ decl["releaseName"] = chart["releaseName"]

\* The charts main is about to apply to CurrentOverlay.
CurrentCharts == overlays_to_charts[idx + 1].val

\* C19: a chart update changes only what was requested.  In the step
\* that updates an overlay's charts, the other overlays' files and every
\* top-level key of the overlay's kustomization other than helmCharts are
\* unchanged, the helmCharts list keeps its length and order, a
\* declaration whose name is not requested is unchanged, and a matched
\* declaration keeps every field other than version (and releaseName if
\* a matching request supplies one), its version unchanged or the
\* version of a matching request.
C19_ChartUpdateFrame ==
    [][pc = "update_charts" =>
          LET o     == CurrentOverlay
              kust  == fs[o].kust
              kust2 == fs'[o].kust
          IN
          /\ \A q \in DOMAIN fs \ {o} : fs'[q] = fs[q]
          /\ fs'[o].isdir = fs[o].isdir /\ fs'[o].file = fs[o].file
          /\ DOMAIN kust2 = DOMAIN kust
          /\ \A key \in DOMAIN kust \ {"helmCharts"} : kust2[key] = kust[key]
          /\ "helmCharts" \in DOMAIN kust =>
                /\ Len(kust2["helmCharts"]) = Len(kust["helmCharts"])
                /\ \A d \in DOMAIN kust["helmCharts"] :
                      LET decl     == kust["helmCharts"][d]
                          decl2    == kust2["helmCharts"][d]
                          matching == {c \in DOMAIN CurrentCharts :
                                          CurrentCharts[c]["name"] = decl["name"]}
                      IN
                      /\ matching = {} => decl2 = decl
                      /\ DOMAIN decl2 = DOMAIN decl
                      /\ \A f \in DOMAIN decl \ {"version", "releaseName"} : decl2[f] = decl[f]
                      /\ \/ decl2["version"] = decl["version"]
                         \/ \E c \in matching : decl2["version"] = CurrentCharts[c]["version"]
                      /\ "releaseName" \in DOMAIN decl =>
                            \/ decl2["releaseName"] = decl["releaseName"]
                            \/ \E c \in matching :
                                  /\ "releaseName" \in DOMAIN CurrentCharts[c]
                                  /\ decl2["releaseName"] = CurrentCharts[c]["releaseName"]]_vars

\* C19 witness: prod's chart c was set to version 2; its repo field, the
\* declaration of chart d and the images key are as they were.
C19_Witness ==
    /\ ChartsApplied("prod")
    /\ "helmCharts" \in DOMAIN fs["prod"].kust
    /\ Len(fs["prod"].kust["helmCharts"]) = 2
    /\ fs["prod"].kust["helmCharts"][1]["version"] = "2"
    /\ fs0["prod"].kust["helmCharts"][1]["version"] = "0"
    /\ fs["prod"].kust["helmCharts"][1]["repo"] = "r0"
    /\ fs["prod"].kust["helmCharts"][2] = fs0["prod"].kust["helmCharts"][2]
    /\ "images" \in DOMAIN fs["prod"].kust

\* C20: every entry of a printed manifest has only the documented fields:
\* an images entry has name, newName and possibly newTag, a charts entry
\* has name, version and possibly releaseName, and nothing else.
C20_ManifestEntryFields ==
    \A p \in DOMAIN stdout :
    \A o \in DOMAIN stdout[p] :
        /\ "images" \in DOMAIN stdout[p][o] =>
              \A i \in DOMAIN stdout[p][o]["images"] :
                  LET fields == DOMAIN stdout[p][o]["images"][i] IN
                  {"name", "newName"} \subseteq fields
                      /\ fields \subseteq {"name", "newName", "newTag"}
        /\ "charts" \in DOMAIN stdout[p][o] =>
              \A i \in DOMAIN stdout[p][o]["charts"] :
                  LET fields == DOMAIN stdout[p][o]["charts"][i] IN
                  {"name", "version"} \subseteq fields
                      /\ fields \subseteq {"name", "version", "releaseName"}

(***************************************************************************)
(* Claims about the start of a run (SpecMix)                               *)
(***************************************************************************)
\* Both change-sets of the run are empty.
NothingRequested == images_to_update = <<>> /\ charts_to_update = <<>>

\* C21: a run with both change-sets empty never gets past the validation
\* step: it ends with status 1 having resolved nothing (no overlay read),
\* invoked no mutation command, written no file and printed no manifest;
\* and a run with a non-empty, rule-abiding change-set is not stopped by
\* the validation step.
C21_UsageError ==
    /\ [](NothingRequested =>
            /\ pc \in {"start", "validate", "done"}
            /\ overlays_to_images = <<>> /\ overlays_to_charts = <<>>
            /\ NothingMutated
            /\ stdout = <<>>
            /\ pc = "done" => exit_code = "1" /\ error = "SystemExit")
    /\ [][pc = "validate" /\ ~NothingRequested /\ ~ChangeSetInvalid
            => pc' = "resolve_images" /\ exit_code' = "running"]_vars

\* C21 witness: a run with both change-sets empty, over a deployment
\* directory whose overlays exist, has ended with status 1 and nothing done.
C21_Witness ==
    /\ NothingRequested
    /\ fs["prod"].isdir /\ "helmCharts" \in DOMAIN fs["dev"].kust
    /\ pc = "done" /\ exit_code = "1"
    /\ NothingMutated /\ stdout = <<>>

(***************************************************************************)
(* SpecDoc: generate_kustomize_args on the images of its docstring         *)
(* example, in any combination, with an empty manifest                     *)
(***************************************************************************)
MaxDocImages == 3

\* Entries {name, newName?, newTag?} over the values of the example.
DocEntries ==
    {n @@ x @@ t :
        n \in Req("name", {"app1", "app2", "app3"}),
        x \in Opt("newName", {"new-app1", "new-app2"}),
        t \in Opt("newTag", {"v2"})}

InitDoc ==
    \E l \in SeqsUpTo(DocEntries, MaxDocImages) :
        FnInit({[overlay |-> "dev", images |-> l, manifest |-> EmptyDict]}, NoFiles)

SpecDoc == InitDoc /\ [][NextArgs]_vars

\* The images of the docstring example.
DocExample ==
    <<[name |-> "app1", newName |-> "new-app1", newTag |-> "v2"],
      [name |-> "app2", newName |-> "new-app2"],
      [name |-> "app3"]>>

\* The arguments the docstring gives for the example.
DocExampleArgs ==
    <<<<"app1", "=", "new-app1", ":", "v2">>, <<"app2", "=", "new-app2">>,
      <<"app3", "=", "app3">>>>

\* image has neither newName nor newTag.
Bare(image) == "newName" \notin DOMAIN image /\ "newTag" \notin DOMAIN image

MaxOrderImages == 2
MaxOrderCharts == 1

OrderImageRequests ==
    {n @@ t @@ o :
        n \in Req("name", {"a", "b"}), t \in Req("newTag", {"v1"}),
        o \in Req("overlays", {<<"prod">>, <<"dev", "prod">>, <<"prod", "dev">>})}

OrderChartRequests ==
    {n @@ v @@ o :
        n \in Req("name", {"c"}), v \in Req("version", {"2"}),
        o \in Req("overlays", {<<"prod">>, <<"dev", "prod">>})}

\* dev declares chart c; prod declares chart c or has no helmCharts list.
OrderFileSystems ==
    {("dev" :> Dir("yaml", "helmCharts" :> <<[name |-> "c", version |-> "1"]>>))
        @@ ("prod" :> Dir("yaml", h)) :
        h \in Opt("helmCharts", {<<[name |-> "c", version |-> "0"]>>})}

\* abspath(DEPLOYMENT_DIR): the start directory (unset, or "."), or another one.
OrderRoots == {StartDir, <<"srv", "deploy">>}

InitOrder ==
    MainInitIn(SeqsUpTo(OrderImageRequests, MaxOrderImages),
               SeqsUpTo(OrderChartRequests, MaxOrderCharts),
               OrderFileSystems, OrderRoots)

SpecOrder == InitOrder /\ [][Next]_vars

\* C23 (as stated): the mutation steps of two overlays are never
\* interleaved: once the run has invoked a command in another overlay it
\* invokes none in an overlay it worked on before (shown on runs whose
\* commands all succeed).
C23_OverlaysNeverInterleaved ==
    ~CommandFailed =>
        \A i, j, k \in DOMAIN commands :
            i < j /\ j < k /\ commands[i].overlay = commands[k].overlay
                => commands[j].overlay = commands[i].overlay

\* manifest's record for overlay o, None when it has none.
ManifestOf(manifest, o) == IF o \in DOMAIN manifest THEN manifest[o] ELSE None

\* C23 (amended): the run has an image phase followed by a chart phase.
\* No image command follows a chart command; within a phase an overlay is
\* worked on once (one image command, one file write, one format command);
\* and every step of a phase changes the files and the manifest record of
\* the one overlay it is about, every other step changing neither.
C23_PhasesOneOverlayAtATime ==
    /\ [](/\ \A i, j \in DOMAIN commands :
                i < j /\ commands[i].cmd = "fmt" => commands[j].cmd = "fmt"
          /\ \A i, j \in DOMAIN commands :
                i < j /\ commands[i].cmd = commands[j].cmd
                    => commands[i].overlay # commands[j].overlay
          /\ \A i, j \in DOMAIN writes : i < j => writes[i] # writes[j])
    /\ [][IF pc \in {"update_images", "update_charts"}
          THEN \A o \in DOMAIN fs \ {CurrentOverlay} :
                  /\ fs'[o] = fs[o]
                  /\ ManifestOf(promotion_manifest', o) = ManifestOf(promotion_manifest, o)
          ELSE fs' = fs /\ promotion_manifest' = promotion_manifest]_vars

\* C23 witness: a successful run worked on dev, prod, dev and prod, in
\* this order: the images of both, then the charts of both.
C23_Witness ==
    /\ pc = "done" /\ exit_code = "0"
    /\ Len(commands) = 4
    /\ [i \in 1..4 |-> commands[i].overlay] = <<"dev", "prod", "dev", "prod">>
    /\ [i \in 1..4 |-> commands[i].cmd] = <<"set_image", "set_image", "fmt", "fmt">>
    /\ Len(images_to_update) = 2

(***************************************************************************)
(* SpecResolve: runs of main over image and chart requests, literal or     *)
(* with fromOverlay, whose overlays lists may name an overlay twice,       *)
(* against a source overlay that declares the chart asked for or not       *)
(***************************************************************************)
MaxResolveImages == 2
MaxResolveCharts == 1

ResolveImageRequests ==
    {n @@ v @@ o :
        n \in Req("name", {"a", "b"}),
        v \in Req("newTag", {"v1"}) \cup Req("fromOverlay", {"dev"}),
        o \in Req("overlays", {<<"prod">>, <<"dev", "prod">>, <<"prod", "prod">>})}

ResolveChartRequests ==
    {n @@ v @@ o :
        n \in Req("name", {"c"}),
        v \in Req("version", {"2"}) \cup Req("fromOverlay", {"dev"}),
        o \in Req("overlays", {<<"prod">>, <<"dev", "prod">>})}

\* dev declares images a and b and chart c or chart d; prod declares chart c.
ResolveFileSystems ==
    {("dev" :> Dir("yaml",
                   ("images" :> <<[name |-> "a", newName |-> "x0", newTag |-> "v0"],
                                  [name |-> "b", newName |-> "b", newTag |-> "v0"]>>)
                   @@ ("helmCharts" :> <<[name |-> h, version |-> "1"]>>)))
        @@ ("prod" :> Dir("yaml", "helmCharts" :> <<[name |-> "c", version |-> "0"]>>)) :
        h \in {"c", "d"}}

InitResolve ==
    MainInit(SeqsUpTo(ResolveImageRequests, MaxResolveImages),
             SeqsUpTo(ResolveChartRequests, MaxResolveCharts), ResolveFileSystems)

SpecResolve == InitResolve /\ [][Next]_vars

\* Main is past get_charts_from_overlays.
ChartsResolved == pc \in {"update_images", "update_charts", "emit"}

\* The bucket a resolved mapping holds for overlay, empty when it has none.
Bucket(d, overlay) == IF overlay \in DictKeys(d) THEN DictGet(d, overlay) ELSE <<>>

\* The overlays the requests name as targets.
Targets(requests) == UNION {Range(requests[i]["overlays"]) : i \in DOMAIN requests}

\* The number of requests that list overlay.
Listing(requests, overlay) ==
    Cardinality({i \in DOMAIN requests : overlay \in Range(requests[i]["overlays"])})

\* No request names an overlay twice in its overlays list.
NoRepeatedTarget ==
    \A requests \in {images_to_update, charts_to_update} :
        \A i \in DOMAIN requests :
            \A j, k \in DOMAIN requests[i]["overlays"] :
                j # k => requests[i]["overlays"][j] # requests[i]["overlays"][k]

\* C24: once both change-sets are resolved, the overlays that have a bucket
\* are the overlays the requests list, and each bucket holds one entry for
\* each request that lists its overlay (shown on change-sets in which no
\* request names an overlay twice).
C24_BucketPerRequest ==
    ChartsResolved /\ NoRepeatedTarget =>
        /\ DictKeys(overlays_to_images) = Targets(images_to_update)
        /\ DictKeys(overlays_to_charts) = Targets(charts_to_update)
        /\ \A o \in DOMAIN fs :
              /\ Len(Bucket(overlays_to_images, o)) = Listing(images_to_update, o)
              /\ Len(Bucket(overlays_to_charts, o)) = Listing(charts_to_update, o)

\* C25: every per-overlay image or chart update that completes leaves the
\* process working directory as it was immediately before the update
\* began, whatever the deployment directory.
C25_WorkingDirectoryRestored ==
    [][(pc \in {"update_images", "update_charts"} /\ exit_code' = "running")
          => (cwd' = cwd)]_vars

(***************************************************************************)
(* SpecSource: runs of main whose requests take their values from dev,     *)
(* dev's kustomization file being absent, unparsable, without the section, *)
(* or declaring entries that are nameless, incomplete, or that share a     *)
(* name or a newName                                                       *)
(***************************************************************************)
MaxSourceImages == 1
MaxSourceCharts == 1

SourceImageRequests ==
    {[name |-> "a", fromOverlay |-> "dev", overlays |-> <<"prod">>],
     [name |-> "b", newTag |-> "v1", overlays |-> <<"prod">>]}

SourceChartRequests == {[name |-> "c", fromOverlay |-> "dev", overlays |-> <<"prod">>]}

\* The images section of dev: absent, or declaring image a and possibly a
\* second entry (nameless, without values, sharing a's newName, or another
\* declaration of a), or declaring a twice with only the later one complete.
SourceImageSections ==
    Opt("images",
        {<<[name |-> "a", newName |-> "x0", newTag |-> "v0"]>>,
         <<[name |-> "a", newName |-> "x0", newTag |-> "v0"], [newTag |-> "v0"]>>,
         <<[name |-> "a", newName |-> "x0", newTag |-> "v0"], [name |-> "b"]>>,
         <<[name |-> "a", newName |-> "x0", newTag |-> "v0"],
           [name |-> "b", newName |-> "x0", newTag |-> "v0"]>>,
         <<[name |-> "a", newName |-> "x0", newTag |-> "v0"],
           [name |-> "a", newName |-> "x1", newTag |-> "v1"]>>,
         <<[name |-> "a"], [name |-> "a", newName |-> "x1", newTag |-> "v1"]>>})

\* The helmCharts section of dev, likewise.
SourceChartSections ==
    Opt("helmCharts",
        {<<[name |-> "c", version |-> "1"]>>,
         <<[name |-> "c", version |-> "1"], [version |-> "1"]>>,
         <<[name |-> "c", version |-> "1"], [name |-> "d"]>>,
         <<[name |-> "c", version |-> "1"], [name |-> "c", version |-> "3"]>>})

SourceDevStates ==
    {NoDir, Dir("missing", EmptyDict), Dir("invalid", EmptyDict)}
    \cup {Dir("yaml", i @@ h) : i \in SourceImageSections, h \in SourceChartSections}

SourceFileSystems ==
    {("dev" :> d)
        @@ ("prod" :> Dir("yaml", "helmCharts" :> <<[name |-> "c", version |-> "0"]>>)) :
        d \in SourceDevStates}

InitSource ==
    MainInit(SeqsUpTo(SourceImageRequests, MaxSourceImages),
             SeqsUpTo(SourceChartRequests, MaxSourceCharts), SourceFileSystems)

SpecSource == InitSource /\ [][Next]_vars

\* The declarations of a section that the reader keeps: of the entries
\* with one name the later one stands.
Standing(decls) ==
    {decls[k] : k \in {k \in DOMAIN decls :
                          \A m \in DOMAIN decls :
                              m > k /\ "name" \in DOMAIN decls[m] /\ "name" \in DOMAIN decls[k]
                                  => decls[m]["name"] # decls[k]["name"]}}

\* Overlay A cannot serve as a source for section: its file is absent or
\* unparsable, the section is missing, an entry has no name, a standing
\* image declaration has neither newName nor newTag, two standing image
\* declarations share a newName, or a standing chart has no version.
SourceBroken(A, section) ==
    \/ fs0[A].file # "yaml"
    \/ section \notin DOMAIN fs0[A].kust
    \/ LET decls == fs0[A].kust[section] IN
       \/ \E k \in DOMAIN decls : "name" \notin DOMAIN decls[k]
       \/ /\ section = "images"
          /\ \/ \E d \in Standing(decls) :
                   "newName" \notin DOMAIN d /\ "newTag" \notin DOMAIN d
             \/ \E d, e \in Standing(decls) :
                   /\ d # e
                   /\ "newName" \in DOMAIN d /\ "newName" \in DOMAIN e
                   /\ d["newName"] = e["newName"]
       \/ /\ section = "helmCharts"
          /\ \E d \in Standing(decls) : "version" \notin DOMAIN d

\* The sources the run has to read for section: those of the requests with
\* fromOverlay that have a target.
SourcesOf(requests) ==
    {requests[i]["fromOverlay"] :
        i \in {k \in DOMAIN requests :
                  "fromOverlay" \in DOMAIN requests[k] /\ requests[k]["overlays"] # <<>>}}

\* C26: a run that has to read a source overlay whose file is absent or
\* unparsable, lacks the section, has a nameless entry or fails validation
\* (even through an entry that is not the one looked up) ends with status 1
\* before any mutation; and when a source declares a name twice, the entry
\* resolved for that name is the later declaration.
C26_SourceReadFatal ==
    /\ (\E A \in SourcesOf(images_to_update) : SourceBroken(A, "images")) =>
          /\ NothingMutated
          /\ pc \in {"start", "validate", "resolve_images", "done"}
          /\ pc = "done" => exit_code = "1" /\ stdout = <<>>
    /\ (\E A \in SourcesOf(charts_to_update) : SourceBroken(A, "helmCharts")) =>
          /\ NothingMutated
          /\ pc \in {"start", "validate", "resolve_images", "resolve_charts", "done"}
          /\ pc = "done" => exit_code = "1" /\ stdout = <<>>
    /\ \A i \in DOMAIN overlays_to_images :
          \A j \in DOMAIN overlays_to_images[i].val :
              LET entry == overlays_to_images[i].val[j] IN
              \A k \in DOMAIN images_to_update :
                  /\ "fromOverlay" \in DOMAIN images_to_update[k]
                  /\ images_to_update[k]["name"] = entry["name"]
                  => entry \in Standing(fs0[images_to_update[k]["fromOverlay"]].kust["images"])
    /\ \A i \in DOMAIN overlays_to_charts :
          \A j \in DOMAIN overlays_to_charts[i].val :
              LET entry == overlays_to_charts[i].val[j] IN
              \A k \in DOMAIN charts_to_update :
                  /\ "fromOverlay" \in DOMAIN charts_to_update[k]
                  /\ charts_to_update[k]["name"] = entry["name"]
                  => entry \in Standing(fs0[charts_to_update[k]["fromOverlay"]].kust["helmCharts"])

\* C26 witness: a run asking for dev's image a ended with status 1 and
\* nothing mutated because dev also declares an image b without values.
C26_Witness ==
    /\ images_to_update = <<[name |-> "a", fromOverlay |-> "dev", overlays |-> <<"prod">>]>>
    /\ fs0["dev"].file = "yaml" /\ "images" \in DOMAIN fs0["dev"].kust
    /\ Len(fs0["dev"].kust["images"]) = 2
    /\ fs0["dev"].kust["images"][2] = [name |-> "b"]
    /\ pc = "done" /\ exit_code = "1" /\ NothingMutated

(***************************************************************************)
(* validate.py: validate_promotion_lists                                   *)
(***************************************************************************)
\* Returns [status, ret, valid_images, valid_charts]: status "SystemExit"
\* when both lists are empty, else "ok" with the value returned and the two
\* values it computed on the way.
validate_py_validate_promotion_lists(images, charts) ==
    IF Len(images) = 0 /\ Len(charts) = 0
    THEN [status |-> "SystemExit", ret |-> None, valid_images |-> None,
          valid_charts |-> None]
    ELSE LET valid_images == validate_py_validate_images(images, FALSE).ret
             valid_charts == validate_py_validate_charts(charts, FALSE).ret
         IN [status |-> "ok", ret |-> valid_images, valid_images |-> valid_images,
             valid_charts |-> valid_charts]

(***************************************************************************)
(* SpecLists: validate.py's validate_promotion_lists on an image change-   *)
(* set and a chart change-set, each valid or not                           *)
(***************************************************************************)
MaxListImages == 2
MaxListCharts == 1

\* Image entries {name?, newTag?, overlays?}.
ListImages ==
    {n @@ t @@ o :
        n \in Opt("name", {"a"}), t \in Opt("newTag", {"v1"}),
        o \in Opt("overlays", {<<"prod">>})}

\* Chart entries {name?, version?, overlays?}.
ListCharts ==
    {n @@ v @@ o :
        n \in Opt("name", {"c"}), v \in Opt("version", {"2"}),
        o \in Opt("overlays", {<<"prod">>})}

Call_validate_py_validate_promotion_lists ==
    Return(validate_py_validate_promotion_lists(fn_in.images, fn_in.charts))

InitLists ==
    \E i \in SeqsUpTo(ListImages, MaxListImages), c \in SeqsUpTo(ListCharts, MaxListCharts) :
        FnInit({[images |-> i, charts |-> c]}, NoFiles)

NextLists == Call_validate_py_validate_promotion_lists

SpecLists == InitLists /\ [][NextLists]_vars

\* C27: validate.py's validate_promotion_lists returns True only if both
\* change-sets are valid: when validate_charts rejected the charts, or
\* validate_images the images, the value returned is not True.
C27_BothListsValid ==
    \A k \in DOMAIN fn_out :
        fn_out[k].status = "ok" /\ fn_out[k].ret = TRUE
            => fn_out[k].valid_images = TRUE /\ fn_out[k].valid_charts = TRUE

(***************************************************************************)
(* Claims about when the source overlays are read (SpecResolve)            *)
(***************************************************************************)
\* The declarations of name in the section of overlay A when the process
\* started, as a sequence: the one declaration, or none.
Declared(A, section, name) ==
    LET decls == fs0[A].kust[section] IN
    IF \E k \in DOMAIN decls : decls[k]["name"] = name
    THEN <<decls[CHOOSE k \in DOMAIN decls : decls[k]["name"] = name]>>
    ELSE <<>>

\* What one occurrence of a target overlay in request contributes to that
\* overlay's bucket: the request itself, or what the source overlay
\* declared when the process started.
Contribution(request, section) ==
    IF "fromOverlay" \in DOMAIN request
    THEN Declared(request["fromOverlay"], section, request["name"])
    ELSE <<request>>

\* k copies of s, one after the other.
RECURSIVE Repeat(_, _)
Repeat(s, k) == IF k = 0 THEN <<>> ELSE s \o Repeat(s, k - 1)

\* The bucket of overlay after the first n requests: for each request in
\* the order supplied, its contribution once per occurrence of overlay in
\* its overlays list.
RECURSIVE PerOccurrence(_, _, _, _)
PerOccurrence(requests, section, overlay, n) ==
    IF n = 0 THEN <<>>
    ELSE LET o == requests[n]["overlays"] IN
         PerOccurrence(requests, section, overlay, n - 1)
            \o Repeat(Contribution(requests[n], section),
                      Cardinality({j \in DOMAIN o : o[j] = overlay}))

\* C28: every lookup of a run reads the overlays as they were before the
\* run's first mutation.  Nothing is mutated until both change-sets are
\* resolved; what was resolved is never resolved again; and at every later
\* point of the run, also after the run has written to a source overlay,
\* the buckets hold the values the sources declared when the process
\* started and the commands invoked carry those values.
C28_LookupsReadPreRunState ==
    /\ [](/\ pc \in {"start", "validate", "resolve_images", "resolve_charts"}
                => NothingMutated
          /\ ImagesResolved =>
                \A o \in DOMAIN fs :
                    Bucket(overlays_to_images, o)
                        = PerOccurrence(images_to_update, "images", o,
                                        Len(images_to_update))
          /\ ChartsResolved \/ (pc = "done" /\ (commands # <<>> \/ exit_code = "0")) =>
                \A o \in DOMAIN fs :
                    Bucket(overlays_to_charts, o)
                        = PerOccurrence(charts_to_update, "helmCharts", o,
                                        Len(charts_to_update))
          /\ \A k \in DOMAIN commands :
                commands[k].cmd = "set_image" =>
                    LET bucket == Bucket(overlays_to_images, commands[k].overlay) IN
                    commands[k].args = [i \in DOMAIN bucket |-> ExpectedArg(bucket[i])])
    /\ [][(pc \in {"update_images", "update_charts", "emit"})
             => (/\ overlays_to_images' = overlays_to_images
                 /\ overlays_to_charts' = overlays_to_charts)]_vars

\* C28 witness: a run has set image b to b:v1 in dev and in prod and then
\* image a in prod from dev's declaration of a; dev is no longer as it was
\* when the process started, and prod's command carried b=b:v1 and a=x0:v0.
C28_Witness ==
    /\ pc = "done" /\ exit_code = "0"
    /\ images_to_update
         = <<[name |-> "b", newTag |-> "v1", overlays |-> <<"dev", "prod">>],
             [name |-> "a", fromOverlay |-> "dev", overlays |-> <<"prod">>]>>
    /\ fs["dev"] # fs0["dev"]
    /\ \E k \in DOMAIN commands :
          /\ commands[k].overlay = "prod"
          /\ commands[k].args = <<<<"b", "=", "b", ":", "v1">>, <<"a", "=", "x0", ":", "v0">>>>

=============================================================================
